---------------------------- MODULE Spec2Model ----------------------------
(***************************************************************************)
(* Model of smart_irrigation_one:                                          *)
(*   - SpellingCorrector and IrrigationGuide                               *)
(*       (src/irrigation/services/knowledge/guide_bot.py)                  *)
(*   - JSONIntentLoader (src/irrigation/utils/json_loader.py)              *)
(*   - the control and schedule views (src/irrigation/api.py)              *)
(*   - the password reset by SMS (src/accounts/views.py)                   *)
(* Python strings are TLA+ strings; Python lists and insertion-ordered     *)
(* dicts are sequences.                                                    *)
(* A local value of the code that is read several times is written         *)
(*     CHOOSE r \in {e(v) : v \in {value}} : TRUE                          *)
(* which is e(value), with the value computed once.                        *)
(***************************************************************************)
EXTENDS Integers, Sequences, FiniteSets, TLC

VARIABLES
    op,                    \* name of the last completed call ("none" at start)
    query,                 \* the query argument of the call
    user_id,               \* the user_id argument (None when not supplied)
    ret,                   \* value returned by the last call
    raised,                \* TRUE iff the last call raised to its caller
    conversation_history,  \* IrrigationGuide.conversation_history
    files,                 \* chatbot_data directory: category -> file content
    intents,               \* JSONIntentLoader.intents
    logged,                \* the exception the last call logged (None: nothing)
    requested_limit,       \* the limit argument of get_suggestions
    reloader,              \* a thread in reload_intents: its position
    matcher,               \* a thread in find_matching_intent: its position
    overwritten, \* the items of knowledge-base dicts that calls assigned to
    cache, \* Django cache: key (without the user's id) -> value
    db, \* database: model name -> rows of the requesting user
    request, \* the HTTP request the last view answered
    session, \* request.session of the browser: key -> value
    threads, \* requests in flight: what each has read and will write
    clock, \* timezone.now(), in minutes
    events  \* history: what the views did with each issued SMS code

vars == <<op, query, user_id, ret, raised, conversation_history, files, intents,
          logged, requested_limit, reloader, matcher,
          overwritten,
          cache,
          db,
          request,
          session,
          threads,
          clock,
          events>>

None == "None"

(***************************************************************************)
(* Python str operations used by the code.                                 *)
(***************************************************************************)
UpperLetters == "ABCDEFGHIJKLMNOPQRSTUVWXYZ"
LowerLetters == "abcdefghijklmnopqrstuvwxyz"

CharAt(s, i) == SubSeq(s, i, i)

Min2(a, b) == IF a <= b THEN a ELSE b
Max2(a, b) == IF a >= b THEN a ELSE b

\* c.isupper() / c.islower() for a one-character string
IsUpperChar(c) == \E i \in 1..26 : CharAt(UpperLetters, i) = c
IsLowerChar(c) == \E i \in 1..26 : CharAt(LowerLetters, i) = c

LowerChar(c) ==
    IF IsUpperChar(c)
    THEN CharAt(LowerLetters, CHOOSE i \in 1..26 : CharAt(UpperLetters, i) = c)
    ELSE c

UpperChar(c) ==
    IF IsLowerChar(c)
    THEN CharAt(UpperLetters, CHOOSE i \in 1..26 : CharAt(LowerLetters, i) = c)
    ELSE c

\* str.lower()
RECURSIVE Lower(_)
Lower(s) ==
    IF Len(s) = 0 THEN ""
    ELSE IF Len(s) = 1 THEN LowerChar(s)
    ELSE LET h == Len(s) \div 2
         IN  Lower(SubSeq(s, 1, h)) \o Lower(SubSeq(s, h + 1, Len(s)))

\* str.islower(): no upper-case character and at least one lower-case one
IsLower(s) ==
    /\ \A i \in 1..Len(s) : ~IsUpperChar(CharAt(s, i))
    /\ \E i \in 1..Len(s) : IsLowerChar(CharAt(s, i))

\* str.capitalize()
Capitalize(s) ==
    IF Len(s) = 0 THEN "" ELSE UpperChar(Head(s)) \o Lower(Tail(s))

IsSpace(c) == c = " "

\* str.strip()
Strip(s) ==
    LET kept == {i \in 1..Len(s) : ~IsSpace(CharAt(s, i))}
    IN  IF kept = {} THEN ""
        ELSE SubSeq(s, CHOOSE i \in kept : \A k \in kept : i <= k,
                       CHOOSE j \in kept : \A k \in kept : k <= j)

\* str.split(): the maximal runs of non-whitespace characters, in order
WordStarts(s) ==
    {i \in 1..Len(s) :
        ~IsSpace(CharAt(s, i)) /\ (i = 1 \/ IsSpace(CharAt(s, i - 1)))}

WordEnd(s, i) ==
    CHOOSE j \in i..Len(s) :
        /\ \A k \in i..j : ~IsSpace(CharAt(s, k))
        /\ (j = Len(s) \/ IsSpace(CharAt(s, j + 1)))

Split(s) ==
    LET starts == WordStarts(s)
        nth(k) == CHOOSE i \in starts : Cardinality({j \in starts : j < i}) = k - 1
    IN  [k \in 1..Cardinality(starts) |-> SubSeq(s, nth(k), WordEnd(s, nth(k)))]

\* set(s.split())
WordSet(s) == {SubSeq(s, i, WordEnd(s, i)) : i \in WordStarts(s)}

\* " ".join(words)
RECURSIVE Join(_)
Join(words) ==
    IF Len(words) = 0 THEN ""
    ELSE IF Len(words) = 1 THEN words[1]
    ELSE words[1] \o " " \o Join(Tail(words))

\* sub in s
Contains(sub, s) ==
    \E i \in 1..(Len(s) - Len(sub) + 1) : SubSeq(s, i, i + Len(sub) - 1) = sub

\* s[:n]
Prefix(s, n) == SubSeq(s, 1, Min2(n, Len(s)))

RECURSIVE SeqsUpTo(_, _)
\* the sequences of at most n elements of S
SeqsUpTo(S, n) ==
    IF n = 0 THEN {<<>>}
    ELSE LET shorter == SeqsUpTo(S, n - 1)
         IN  shorter \cup {Append(t, x) : t \in shorter, x \in S}

SeqToSet(s) == {s[i] : i \in 1..Len(s)}

(***************************************************************************)
(* Levenshtein.distance(a, b): the edit distance, computed row by row.     *)
(***************************************************************************)
\* the cell at column j of the row of character ch, given the row above
\* (prev) and the cells to its left (cur); rows are indexed from 1
LevCell(prev, cur, ch, b, j) ==
    Min2(Min2(prev[j + 1] + 1, cur[j] + 1),
         prev[j] + (IF ch = CharAt(b, j) THEN 0 ELSE 1))

RECURSIVE LevRow(_, _, _, _)
LevRow(prev, ch, b, cur) ==
    IF Len(cur) = Len(b) + 1 THEN cur
    ELSE LevRow(prev, ch, b, Append(cur, LevCell(prev, cur, ch, b, Len(cur))))

RECURSIVE LevRows(_, _, _, _)
LevRows(a, b, i, prev) ==
    IF i > Len(a) THEN prev[Len(b) + 1]
    ELSE LET row == LevRow(prev, CharAt(a, i), b, <<i>>)
         IN  IF Len(row) = Len(b) + 1 THEN LevRows(a, b, i + 1, row) ELSE -1

Levenshtein(a, b) == LevRows(a, b, 1, [j \in 1..(Len(b) + 1) |-> j - 1])

(***************************************************************************)
(* SpellingCorrector                                                       *)
(***************************************************************************)
\* the keys of self.irrigation_terms, in dict order
irrigation_terms ==
  <<
    "pump", "valve", "water", "irrigation", "system", "schedule", "zone",
    "moisture", "sensor", "dashboard", "control", "emergency", "stop",
    "settings", "analytics", "status", "threshold", "manual", "automatic",
    "help", "pressure", "flow", "timer", "sprinkler", "pipe", "nozzle",
    "filter", "pipeline", "drip", "spray", "weather", "rain", "forecast",
    "humidity", "temperature", "start", "open", "close", "activate",
    "deactivate", "set", "change", "adjust", "check", "view", "show",
    "display", "monitor", "test", "problem", "issue", "error", "fix",
    "repair", "broken", "leak", "clog", "blockage", "malfunction"
  >>

\* self.common_misspellings as <<misspelling, correction>> pairs
common_misspellings ==
  <<
    <<"pum", "pump">>, <<"valv", "valve">>, <<"irigation", "irrigation">>,
    <<"moistre", "moisture">>, <<"scedule", "schedule">>,
    <<"dashbord", "dashboard">>, <<"controll", "control">>,
    <<"emergancy", "emergency">>, <<"threshhold", "threshold">>,
    <<"analitics", "analytics">>, <<"manualy", "manually">>,
    <<"automaticaly", "automatically">>, <<"nozle", "nozzle">>,
    <<"sprinkeler", "sprinkler">>, <<"preassure", "pressure">>,
    <<"temprature", "temperature">>, <<"humidty", "humidity">>,
    <<"forcast", "forecast">>
  >>

IsMisspelling(w) ==
    \E i \in 1..Len(common_misspellings) : common_misspellings[i][1] = w

MisspellingOf(w) ==
    common_misspellings[CHOOSE i \in 1..Len(common_misspellings) :
                            common_misspellings[i][1] = w][2]

IsTerm(w) == \E i \in 1..Len(irrigation_terms) : Lower(irrigation_terms[i]) = w

\* the loop over self.irrigation_terms.keys(): the first term at the
\* smallest distance, if that distance is at most 2 (None otherwise)
RECURSIVE ClosestTerm(_, _, _, _)
ClosestTerm(lower_word, i, best_match, best_distance) ==
    IF i > Len(irrigation_terms) THEN best_match
    ELSE LET term     == irrigation_terms[i]
             distance == Levenshtein(lower_word, Lower(term))
         IN  IF (best_distance = -1 \/ distance < best_distance) /\ distance <= 2
             THEN ClosestTerm(lower_word, i + 1, term, distance)
             ELSE ClosestTerm(lower_word, i + 1, best_match, best_distance)

\* one iteration of the loop over words: <<corrected word, was corrected>>
CorrectWord(word) ==
    LET lower_word == Lower(word)
    IN  IF IsMisspelling(lower_word)
        THEN LET c == MisspellingOf(lower_word)
             IN  <<IF IsUpperChar(Head(word)) THEN Capitalize(c) ELSE c, TRUE>>
        ELSE IF ~IsTerm(lower_word)
             THEN LET best_match == ClosestTerm(lower_word, 1, None, -1)
                  IN  IF best_match # None
                      THEN <<IF IsLower(word) THEN best_match
                                              ELSE Capitalize(best_match), TRUE>>
                      ELSE <<word, FALSE>>
             ELSE <<word, FALSE>>

RECURSIVE CorrectWords(_, _, _)
CorrectWords(words, corrected_words, corrections) ==
    IF Len(words) = 0
    THEN [corrected_query |-> Join(corrected_words), corrections |-> corrections]
    ELSE LET word == Head(words)
             cw   == CorrectWord(word)
         IN  CorrectWords(Tail(words), Append(corrected_words, cw[1]),
                          IF cw[2] THEN Append(corrections, <<word, cw[1]>>)
                                   ELSE corrections)

correct_spelling(q) == CorrectWords(Split(q), <<>>, <<>>)

(***************************************************************************)
(* JSONIntentLoader                                                        *)
(* A file of the chatbot_data directory is missing, malformed (json.load   *)
(* raises) or holds {"intents": [...]}; an intent is a dict with the keys  *)
(* listed in its field keys.  self.intents, an insertion-ordered dict, is  *)
(* a sequence of <<category, data>> pairs.                                 *)
(***************************************************************************)
\* json_files, in dict order
json_files == <<"help", "contact", "privacy", "terms", "system">>

Missing   == [state |-> "missing", intents |-> <<>>]
Malformed == [state |-> "malformed", intents |-> <<>>]
FileOf(intent_list) == [state |-> "ok", intents |-> intent_list]

\* d[key] = value on an insertion-ordered dict
DictSet(d, key, value) ==
    IF \E i \in 1..Len(d) : d[i][1] = key
    THEN [i \in 1..Len(d) |-> IF d[i][1] = key THEN <<key, value>> ELSE d[i]]
    ELSE Append(d, <<key, value>>)

\* the statements inside the try of the loop body of load_all_intents: a
\* file that exists is opened and parsed, which raises when it is malformed,
\* and stored; a missing file is skipped
TryLoadFile(d, fs, category) ==
    IF fs[category].state = "missing" THEN [raised |-> FALSE, intents |-> d]
    ELSE IF fs[category].state = "malformed" THEN [raised |-> TRUE, intents |-> d]
    ELSE [raised |-> FALSE,
          intents |-> DictSet(d, category, [intents |-> fs[category].intents])]

\* the loop body without an except clause: the error of the file goes on
ExceptNothing(result) == result

\* except Exception as e: the error of the file is logged and dropped
ExceptLoadError(result) == [result EXCEPT !.raised = FALSE]

\* the body of the loop of load_all_intents for one category
LoadCategory(d, fs, category) == ExceptLoadError(TryLoadFile(d, fs, category))

RECURSIVE LoadFrom(_, _, _)
\* the loop of load_all_intents from the file with number k on; an
\* exception that leaves the loop body ends the loop
LoadFrom(d, fs, k) ==
    IF k > Len(json_files) THEN [raised |-> FALSE, intents |-> d]
    ELSE LET result == LoadCategory(d, fs, json_files[k])
         IN  IF result.raised THEN result
             ELSE LoadFrom(result.intents, fs, k + 1)

\* a call of load_all_intents on the dict d: whether it raises, and the
\* dict it leaves; nothing is loaded without the directory
LoadAll(d, fs) ==
    IF ~fs.dir_exists THEN [raised |-> FALSE, intents |-> d]
    ELSE LoadFrom(d, fs, 1)

\* the dict self.intents after load_all_intents on the dict d
load_all_intents(d, fs) == LoadAll(d, fs).intents

\* a score of the code as the fraction <<numerator, denominator>>
ScoreZero  == <<0, 1>>
ScoreExact == <<1, 1>>
ScoreContained == <<4, 5>>
Threshold  == <<3, 5>>

FracLess(x, y) == x[1] * y[2] < y[1] * x[2]
FracEq(x, y)   == x[1] * y[2] = y[1] * x[2]
FracMax(x, y)  == IF FracLess(x, y) THEN y ELSE x

\* the word overlap counted without the division by the larger word count
PatternScoreNotNormalized(q, pattern_lower) ==
    IF Contains(pattern_lower, q) \/ Contains(q, pattern_lower)
    THEN ScoreContained
    ELSE <<3 * Cardinality(WordSet(q) \cap WordSet(pattern_lower)), 5>>

\* the score of one pattern that is not equal to the query
PatternScore(q, pattern_lower) ==
    IF Contains(pattern_lower, q) \/ Contains(q, pattern_lower)
    THEN ScoreContained
    ELSE LET query_words   == WordSet(q)
             pattern_words == WordSet(pattern_lower)
             common_words  == query_words \cap pattern_words
         IN  IF common_words # {}
             THEN <<3 * Cardinality(common_words),
                    5 * Max2(Cardinality(query_words), Cardinality(pattern_words))>>
             ELSE ScoreZero

RECURSIVE ScoreFromWithoutEquality(_, _, _, _)
\* the loop without the return of 1.0 for a pattern equal to the query
ScoreFromWithoutEquality(q, patterns, k, max_score) ==
    IF k > Len(patterns) THEN max_score
    ELSE ScoreFromWithoutEquality(q, patterns, k + 1,
                   FracMax(max_score, PatternScore(q, Lower(patterns[k]))))

RECURSIVE ScoreFrom(_, _, _, _)
\* the loop of _calculate_match_score from pattern k on
ScoreFrom(q, patterns, k, max_score) ==
    IF k > Len(patterns) THEN max_score
    ELSE IF q = Lower(patterns[k]) THEN ScoreExact
    ELSE ScoreFrom(q, patterns, k + 1,
                   FracMax(max_score, PatternScore(q, Lower(patterns[k]))))

IntentGet(intent, key, default) ==
    IF key \in intent.keys THEN intent[key] ELSE default

_calculate_match_score(q, intent) ==
    ScoreFrom(q, IntentGet(intent, "patterns", <<>>), 1, ScoreZero)

NoMatch == [found |-> FALSE, category |-> None, index |-> 0, score |-> ScoreZero]

\* the update that also replaces the best match by one of equal score
ConsiderLatest(best, q, category, index, intent, threshold) ==
    LET score == _calculate_match_score(q, intent)
    IN  IF ~FracLess(score, best.score) /\ ~FracLess(score, threshold)
        THEN [found |-> TRUE, category |-> category, index |-> index,
              score |-> score]
        ELSE best

\* the update of best_match / best_category / best_score for one intent
Consider(best, q, category, index, intent, threshold) ==
    LET score == _calculate_match_score(q, intent)
    IN  IF FracLess(best.score, score) /\ ~FracLess(score, threshold)
        THEN [found |-> TRUE, category |-> category, index |-> index,
              score |-> score]
        ELSE best

RECURSIVE ScanIntents(_, _, _, _, _, _)
ScanIntents(best, q, category, intent_list, k, threshold) ==
    IF k > Len(intent_list) THEN best
    ELSE ScanIntents(Consider(best, q, category, k, intent_list[k], threshold),
                     q, category, intent_list, k + 1, threshold)

RECURSIVE ScanCategories(_, _, _, _, _)
ScanCategories(best, q, d, c, threshold) ==
    IF c > Len(d) THEN best
    ELSE ScanCategories(
            ScanIntents(best, q, d[c][1], d[c][2].intents, 1, threshold),
            q, d, c + 1, threshold)

\* find_matching_intent(query, threshold) on the dict d: the best match is
\* named by its category and its position in that category's list
find_matching_intent(d, qry, threshold) ==
    ScanCategories(NoMatch, Strip(Lower(qry)), d, 1, threshold)

\* the intent a match names
IntentAt(d, category, index) ==
    (d[CHOOSE c \in 1..Len(d) : d[c][1] = category][2]).intents[index]

\* the outcome of a call: the value it returns, or the exception it raises
Returns(value)    == [raised |-> FALSE, value |-> value]
Raises(exception) == [raised |-> TRUE, exception |-> exception]

\* suggestions_map.get(intent_tag, [...]) of _generate_suggestions
_generate_suggestions(intent_tag) ==
    CASE intent_tag = "user_manual" ->
            <<"Download manual", "Setup instructions", "Troubleshooting">>
      [] intent_tag = "watering_frequency" ->
            <<"Soil moisture", "Weather-based watering", "Schedule setup">>
      [] intent_tag = "contact_support" ->
            <<"Phone support", "Email support", "Visit location">>
      [] intent_tag = "emergency_procedure" ->
            <<"Emergency stop", "System reset", "Contact support">>
      [] intent_tag = "privacy_policy" ->
            <<"Data collection", "Data usage", "Data security">>
      [] OTHER -> <<"How can I help?", "System status", "Control panel">>

_get_fallback_suggestions ==
    <<"How to control the pump?", "Show me the dashboard",
      "Emergency procedures", "Contact support">>

\* _get_random_response(responses) when random.choice draws the response
\* with number pick
_get_random_response(responses, pick) ==
    IF Len(responses) = 0 THEN "I'm here to help!"
    ELSE responses[((pick - 1) % Len(responses)) + 1]

\* get_response(query) on the dict d; intent['tag'] and intent['responses']
\* raise KeyError when the intent has no such key
get_response(d, qry, pick) ==
    LET m == find_matching_intent(d, qry, Threshold)
    IN  IF m.found /\ ~FracLess(m.score, Threshold)
        THEN LET intent == IntentAt(d, m.category, m.index)
             IN  IF "tag" \notin intent.keys \/ "responses" \notin intent.keys
                 THEN Raises("KeyError")
                 ELSE Returns(
                        [matched     |-> TRUE,
                         type        |-> "json_intent",
                         category    |-> m.category,
                         intent      |-> intent.tag,
                         response    |-> _get_random_response(intent.responses, pick),
                         confidence  |-> m.score,
                         suggestions |-> _generate_suggestions(intent.tag)])
        ELSE Returns(
                [matched     |-> FALSE,
                 response    |-> "I'm not sure how to help with that. " \o
                                 "Could you try rephrasing your question?",
                 confidence  |-> ScoreZero,
                 suggestions |-> _get_fallback_suggestions])

(***************************************************************************)
(* IrrigationGuide: the knowledge base.                                    *)
(***************************************************************************)
\* ResourceType, in definition order
ResourceTypes ==
    <<"route", "info", "command", "widget", "help", "chat", "tutorial",
      "troubleshooting", "contact", "emergency", "navigation">>

\* self.resources, flattened in the order of
\*   for resource_type in ResourceType:
\*       for name, data in self.resources[resource_type].items()
\* keys is the set of the dict keys the entry defines (among those the
\* matching code reads); a field whose key is absent holds a placeholder.
resources ==
  <<
    [ type |-> "route", name |-> "dashboard",
      keys |-> {"description", "keywords", "category", "importance"},
      keywords |->
        <<"dashboard", "home", "main page", "status", "overview",
          "homepage", "main">>,
      description |->
        "Main system dashboard showing current status, sensor readings, " \o
        "and system overview with real-time updates",
      category |-> "Monitoring", importance |-> 10,
      suggestions |-> <<>> ],
    [ type |-> "route", name |-> "control panel",
      keys |-> {"description", "keywords", "category", "importance"},
      keywords |->
        <<"control", "manual", "pump", "valve", "switch", "manual control",
          "controls">>,
      description |->
        "Manual control center for pumps, valves, and irrigation zones " \o
        "with real-time adjustments and scheduling",
      category |-> "Control", importance |-> 9,
      suggestions |-> <<>> ],
    [ type |-> "route", name |-> "analytics",
      keys |-> {"description", "keywords", "category", "importance"},
      keywords |->
        <<"analytics", "charts", "graphs", "history", "data", "statistics",
          "reports">>,
      description |->
        "Advanced analytics with charts, graphs, and historical irrigation " \o
        "data visualization",
      category |-> "Analysis", importance |-> 8,
      suggestions |-> <<>> ],
    [ type |-> "route", name |-> "download data",
      keys |-> {"description", "keywords", "category", "importance"},
      keywords |->
        <<"download", "export", "get data", "csv", "excel", "export data",
          "download data">>,
      description |->
        "Export sensor data as CSV or Excel files for further analysis and " \o
        "reporting",
      category |-> "Data", importance |-> 7,
      suggestions |-> <<>> ],
    [ type |-> "route", name |-> "help",
      keys |-> {"description", "keywords", "category", "importance"},
      keywords |->
        <<"help", "support", "documentation", "faq", "guide", "manual">>,
      description |->
        "Comprehensive documentation, user guides, and support resources",
      category |-> "Support", importance |-> 6,
      suggestions |-> <<>> ],
    [ type |-> "route", name |-> "privacy",
      keys |-> {"description", "keywords", "category", "importance"},
      keywords |->
        <<"privacy", "policy", "data", "protection", "security">>,
      description |->
        "Our privacy policy and data handling practices for your security",
      category |-> "Legal", importance |-> 3,
      suggestions |-> <<>> ],
    [ type |-> "route", name |-> "terms",
      keys |-> {"description", "keywords", "category", "importance"},
      keywords |->
        <<"terms", "service", "agreement", "legal", "conditions">>,
      description |->
        "Terms of service and usage agreement for the irrigation system",
      category |-> "Legal", importance |-> 2,
      suggestions |-> <<>> ],
    [ type |-> "route", name |-> "about",
      keys |-> {"description", "keywords", "category", "importance"},
      keywords |->
        <<"about", "information", "team", "developer", "company">>,
      description |->
        "Learn about our irrigation system, development team, and " \o
        "achievements",
      category |-> "Information", importance |-> 4,
      suggestions |-> <<>> ],
    [ type |-> "route", name |-> "contact",
      keys |-> {"description", "keywords", "category", "importance"},
      keywords |->
        <<"contact", "support", "help", "email", "phone", "contact us">>,
      description |->
        "Get in touch with our support team for assistance and inquiries",
      category |-> "Support", importance |-> 5,
      suggestions |-> <<>> ],
    [ type |-> "route", name |-> "profile",
      keys |-> {"description", "keywords", "category", "importance"},
      keywords |->
        <<"profile", "account", "settings", "user", "preferences">>,
      description |->
        "Manage your user account settings, preferences, and notification " \o
        "options",
      category |-> "Account", importance |-> 7,
      suggestions |-> <<>> ],
    [ type |-> "route", name |-> "chatbot",
      keys |-> {"description", "keywords", "category", "importance"},
      keywords |->
        <<"chat", "bot", "assistant", "help", "ask", "ai", "assistant">>,
      description |->
        "Interactive AI assistant for help with irrigation system " \o
        "management",
      category |-> "Support", importance |-> 8,
      suggestions |-> <<>> ],
    [ type |-> "route", name |-> "scheduling",
      keys |-> {"description", "keywords", "category", "importance"},
      keywords |->
        <<"schedule", "timer", "plan", "automatic", "watering schedule">>,
      description |->
        "Create and manage irrigation schedules based on time, weather, or " \o
        "soil conditions",
      category |-> "Control", importance |-> 8,
      suggestions |-> <<>> ],
    [ type |-> "route", name |-> "zones",
      keys |-> {"description", "keywords", "category", "importance"},
      keywords |->
        <<"zones", "areas", "sections", "zone management">>,
      description |->
        "Configure and manage different irrigation zones for targeted " \o
        "watering",
      category |-> "Control", importance |-> 7,
      suggestions |-> <<>> ],
    [ type |-> "info", name |-> "water conservation",
      keys |-> {"description", "keywords", "category", "importance"},
      keywords |->
        <<"water", "save", "conservation", "efficient", "saving">>,
      description |->
        "Learn about water-saving techniques and efficient irrigation " \o
        "practices",
      category |-> "Education", importance |-> 7,
      suggestions |-> <<>> ],
    [ type |-> "info", name |-> "system maintenance",
      keys |-> {"description", "keywords", "category", "importance"},
      keywords |->
        <<"maintenance", "repair", "service", "checkup", "winterize">>,
      description |->
        "Guidelines for maintaining your irrigation system for optimal " \o
        "performance",
      category |-> "Maintenance", importance |-> 6,
      suggestions |-> <<>> ],
    [ type |-> "info", name |-> "plant watering needs",
      keys |-> {"description", "keywords", "category", "importance"},
      keywords |->
        <<"plants", "watering", "needs", "vegetables", "lawn", "garden">>,
      description |->
        "Understand different watering requirements for various plant types",
      category |-> "Education", importance |-> 5,
      suggestions |-> <<>> ],
    [ type |-> "command", name |-> "pump",
      keys |-> {"description", "keywords"},
      keywords |->
        <<"pump", "water pump", "activate pump", "main pump",
          "water supply">>,
      description |->
        "Control the main water pump (turn on/off) for the entire " \o
        "irrigation system",
      category |-> "", importance |-> 0,
      suggestions |-> <<>> ],
    [ type |-> "command", name |-> "valve",
      keys |-> {"description", "keywords"},
      keywords |->
        <<"valve", "water valve", "open valve", "close valve",
          "irrigation valve">>,
      description |->
        "Control individual irrigation valves (open/close) for specific " \o
        "zones",
      category |-> "", importance |-> 0,
      suggestions |-> <<>> ],
    [ type |-> "command", name |-> "emergency",
      keys |-> {"description", "keywords"},
      keywords |->
        <<"emergery", "stop", "shutdown", "safety", "emergency stop",
          "kill switch">>,
      description |->
        "Activate or deactivate emergency stop (immediately shuts down all " \o
        "systems)",
      category |-> "", importance |-> 0,
      suggestions |-> <<>> ],
    [ type |-> "command", name |-> "mode",
      keys |-> {"description", "keywords"},
      keywords |->
        <<"mode", "switch mode", "automatic", "manual", "operation mode">>,
      description |->
        "Switch between automatic and manual operation modes",
      category |-> "", importance |-> 0,
      suggestions |-> <<>> ],
    [ type |-> "command", name |-> "threshold",
      keys |-> {"description", "keywords"},
      keywords |->
        <<"threshold", "moisture level", "set threshold", "sensitivity",
          "moisture setting">>,
      description |->
        "Set moisture threshold levels for automatic irrigation triggers",
      category |-> "", importance |-> 0,
      suggestions |-> <<>> ],
    [ type |-> "command", name |-> "schedule",
      keys |-> {"description", "keywords"},
      keywords |->
        <<"schedule", "timer", "plan irrigation", "watering schedule",
          "irrigation plan">>,
      description |->
        "Create or modify irrigation schedules for automated watering",
      category |-> "", importance |-> 0,
      suggestions |-> <<>> ],
    [ type |-> "command", name |-> "stop all",
      keys |-> {"description", "keywords"},
      keywords |->
        <<"stop", "halt", "cancel", "stop all", "end irrigation">>,
      description |->
        "Stop all currently active irrigation processes immediately",
      category |-> "", importance |-> 0,
      suggestions |-> <<>> ],
    [ type |-> "command", name |-> "status",
      keys |-> {"description", "keywords"},
      keywords |->
        <<"status", "check", "system status", "current state",
          "what's running">>,
      description |->
        "Check current system status, sensor readings, and active " \o
        "operations",
      category |-> "", importance |-> 0,
      suggestions |-> <<>> ],
    [ type |-> "widget", name |-> "moisture levels",
      keys |-> {"description", "keywords", "category", "importance"},
      keywords |->
        <<"moisture", "soil", "sensor", "levels", "wetness">>,
      description |->
        "View current soil moisture levels across all irrigation zones",
      category |-> "Monitoring", importance |-> 8,
      suggestions |-> <<>> ],
    [ type |-> "widget", name |-> "water usage",
      keys |-> {"description", "keywords", "category", "importance"},
      keywords |->
        <<"water", "usage", "consumption", "gallons", "liters", "meter">>,
      description |->
        "Track water consumption over time with detailed analytics",
      category |-> "Analytics", importance |-> 7,
      suggestions |-> <<>> ],
    [ type |-> "widget", name |-> "weather forecast",
      keys |-> {"description", "keywords", "category", "importance"},
      keywords |->
        <<"weather", "forecast", "rain", "temperature", "humidity">>,
      description |->
        "Integrated weather data to help plan irrigation based on " \o
        "conditions",
      category |-> "Planning", importance |-> 6,
      suggestions |-> <<>> ],
    [ type |-> "widget", name |-> "system health",
      keys |-> {"description", "keywords", "category", "importance"},
      keywords |->
        <<"health", "status", "system", "diagnostics", "performance">>,
      description |->
        "Monitor the overall health and status of your irrigation system",
      category |-> "Monitoring", importance |-> 9,
      suggestions |-> <<>> ],
    [ type |-> "help", name |-> "user manual",
      keys |-> {"description", "keywords", "category", "importance"},
      keywords |->
        <<"manual", "guide", "instructions", "documentation", "how to">>,
      description |->
        "Complete user manual with detailed instructions for all features",
      category |-> "Documentation", importance |-> 8,
      suggestions |-> <<>> ],
    [ type |-> "help", name |-> "video tutorials",
      keys |-> {"description", "keywords", "category", "importance"},
      keywords |->
        <<"video", "tutorial", "how to", "watch", "demonstration">>,
      description |->
        "Step-by-step video guides for common tasks and setup procedures",
      category |-> "Learning", importance |-> 7,
      suggestions |-> <<>> ],
    [ type |-> "help", name |-> "faq",
      keys |-> {"description", "keywords", "category", "importance"},
      keywords |->
        <<"faq", "questions", "answers", "common", "problems">>,
      description |->
        "Frequently asked questions and answers about the irrigation system",
      category |-> "Support", importance |-> 6,
      suggestions |-> <<>> ],
    [ type |-> "help", name |-> "community forum",
      keys |-> {"description", "keywords", "category", "importance"},
      keywords |->
        <<"community", "forum", "discussion", "users", "share">>,
      description |->
        "Connect with other users, share tips, and get community support",
      category |-> "Community", importance |-> 5,
      suggestions |-> <<>> ],
    [ type |-> "chat", name |-> "greeting",
      keys |-> {"response", "suggestions", "quick_actions"},
      keywords |-> <<>>,
      description |->
        "",
      category |-> "", importance |-> 0,
      suggestions |->
        <<"How do I control the pump?", "What's my soil moisture?",
          "Emergency stop info", "Set up a watering schedule",
          "Troubleshoot a problem">> ],
    [ type |-> "chat", name |-> "emergency_info",
      keys |-> {"response", "actions"},
      keywords |-> <<>>,
      description |->
        "",
      category |-> "", importance |-> 0,
      suggestions |-> <<>> ],
    [ type |-> "chat", name |-> "clear_chat_confirmation",
      keys |-> {"response", "actions"},
      keywords |-> <<>>,
      description |->
        "",
      category |-> "", importance |-> 0,
      suggestions |-> <<>> ],
    [ type |-> "chat", name |-> "settings_info",
      keys |-> {"response", "actions"},
      keywords |-> <<>>,
      description |->
        "",
      category |-> "", importance |-> 0,
      suggestions |-> <<>> ],
    [ type |-> "chat", name |-> "thanks",
      keys |-> {"response", "suggestions"},
      keywords |-> <<>>,
      description |->
        "",
      category |-> "", importance |-> 0,
      suggestions |->
        <<"How's my water usage?", "Show me the control panel",
          "Set up a schedule", "Check system health">> ],
    [ type |-> "chat", name |-> "goodbye",
      keys |-> {"response", "quick_actions"},
      keywords |-> <<>>,
      description |->
        "",
      category |-> "", importance |-> 0,
      suggestions |-> <<>> ],
    [ type |-> "chat", name |-> "spelling_correction",
      keys |-> {"response"},
      keywords |-> <<>>,
      description |->
        "",
      category |-> "", importance |-> 0,
      suggestions |-> <<>> ],
    [ type |-> "tutorial", name |-> "getting started",
      keys |-> {"description"},
      keywords |-> <<>>,
      description |->
        "Complete beginner's guide to setting up and using your irrigation " \o
        "system",
      category |-> "", importance |-> 0,
      suggestions |-> <<>> ],
    [ type |-> "tutorial", name |-> "schedule setup",
      keys |-> {"description"},
      keywords |-> <<>>,
      description |->
        "Learn how to create and manage automated watering schedules",
      category |-> "", importance |-> 0,
      suggestions |-> <<>> ],
    [ type |-> "tutorial", name |-> "water conservation",
      keys |-> {"description"},
      keywords |-> <<>>,
      description |->
        "Optimize your irrigation for maximum water efficiency",
      category |-> "", importance |-> 0,
      suggestions |-> <<>> ],
    [ type |-> "troubleshooting", name |-> "pump not working",
      keys |-> {"description"},
      keywords |-> <<>>,
      description |->
        "Troubleshoot issues with water pump not starting",
      category |-> "", importance |-> 0,
      suggestions |-> <<>> ],
    [ type |-> "troubleshooting", name |-> "low water pressure",
      keys |-> {"description"},
      keywords |-> <<>>,
      description |->
        "Address issues with low water pressure in irrigation system",
      category |-> "", importance |-> 0,
      suggestions |-> <<>> ],
    [ type |-> "troubleshooting", name |-> "sensor issues",
      keys |-> {"description"},
      keywords |-> <<>>,
      description |->
        "Troubleshoot problems with soil moisture sensors",
      category |-> "", importance |-> 0,
      suggestions |-> <<>> ],
    [ type |-> "troubleshooting", name |-> "leak detection",
      keys |-> {"description"},
      keywords |-> <<>>,
      description |->
        "Identify and address potential water leaks in the system",
      category |-> "", importance |-> 0,
      suggestions |-> <<>> ],
    [ type |-> "contact", name |-> "contact",
      keys |-> {"description"},
      keywords |-> <<>>,
      description |->
        "Get in touch with our support team for assistance and inquiries",
      category |-> "", importance |-> 0,
      suggestions |-> <<>> ],
    [ type |-> "emergency", name |-> "emergency_procedures",
      keys |-> {"description"},
      keywords |-> <<>>,
      description |->
        "Step-by-step instructions for handling irrigation system " \o
        "emergencies",
      category |-> "", importance |-> 0,
      suggestions |-> <<>> ],
    [ type |-> "navigation", name |-> "header navigation",
      keys |-> {"description", "category"},
      keywords |-> <<>>,
      description |->
        "Learn how to navigate through the irrigation system using the " \o
        "header menu",
      category |-> "Navigation", importance |-> 0,
      suggestions |-> <<>> ],
    [ type |-> "navigation", name |-> "emergency access",
      keys |-> {"description", "category"},
      keywords |-> <<>>,
      description |->
        "How to quickly access emergency features from anywhere in the " \o
        "system",
      category |-> "Emergency", importance |-> 0,
      suggestions |-> <<>> ],
    [ type |-> "navigation", name |-> "dashboard overview",
      keys |-> {"description", "category"},
      keywords |-> <<>>,
      description |->
        "Learn how to interpret and use your irrigation system dashboard",
      category |-> "Navigation", importance |-> 0,
      suggestions |-> <<>> ]
  >>

\* data.get(key, default)
Get(data, key, default) == IF key \in data.keys THEN data[key] ELSE default

NumResources == Len(resources)

\* set(data.get("description", "").lower().split()) of every entry
description_words ==
    [i \in 1..NumResources |->
        WordSet(Lower(Get(resources[i], "description", "")))]

\* set(name.lower().split()) of every entry
name_words ==
    [i \in 1..NumResources |-> WordSet(Lower(resources[i].name))]

\* set(kw.lower() for kw in data.get("keywords", [])) of every entry
keyword_words ==
    [i \in 1..NumResources |->
        {Lower(Get(resources[i], "keywords", <<>>)[k]) :
            k \in 1..Len(Get(resources[i], "keywords", <<>>))}]

\* the smallest element of a set of indices (0 when it is empty): the
\* iteration at which a loop with an early return returns
FirstIndex(S) == IF S = {} THEN 0 ELSE CHOOSE i \in S : \A j \in S : i <= j

(***************************************************************************)
(* difflib.get_close_matches(word, possibilities, n, cutoff)               *)
(***************************************************************************)
RECURSIVE MatchLen(_, _, _, _, _, _)
\* the length of the longest common run that starts at a[i] and b[j]
MatchLen(a, i, ahi, b, j, bhi) ==
    IF i > ahi \/ j > bhi \/ CharAt(a, i) # CharAt(b, j) THEN 0
    ELSE 1 + MatchLen(a, i + 1, ahi, b, j + 1, bhi)

\* SequenceMatcher.find_longest_match: the longest block common to
\* a[alo..ahi] and b[blo..bhi], the one starting earliest in a and, among
\* those, earliest in b
LongestMatch(a, alo, ahi, b, blo, bhi) ==
    CHOOSE longest \in UNION {UNION {
        {LET i0 == CHOOSE i \in {m[1] : m \in best} : \A m \in best : i <= m[1]
             j0 == CHOOSE j \in {m[2] : m \in {x \in best : x[1] = i0}} :
                        \A m \in {x \in best : x[1] = i0} : j <= m[2]
         IN  <<i0, j0, size>> :
         best \in {{m \in blocks : m[3] = size}}} :
        size \in {CHOOSE k \in {m[3] : m \in blocks} :
                        \A m \in blocks : m[3] <= k}} :
        blocks \in {{<<i, j, MatchLen(a, i, ahi, b, j, bhi)>> :
                        i \in alo..ahi, j \in blo..bhi}}} : TRUE

RECURSIVE MatchingTotal(_, _, _, _, _, _)
\* the sum of the sizes of SequenceMatcher.get_matching_blocks()
MatchingTotal(a, alo, ahi, b, blo, bhi) ==
    IF alo > ahi \/ blo > bhi THEN 0
    ELSE CHOOSE total \in
            {IF m[3] = 0 THEN 0
             ELSE m[3]
                  + MatchingTotal(a, alo, m[1] - 1, b, blo, m[2] - 1)
                  + MatchingTotal(a, m[1] + m[3], ahi, b, m[2] + m[3], bhi) :
             m \in {LongestMatch(a, alo, ahi, b, blo, bhi)}} : TRUE

\* SequenceMatcher.ratio() = 2.0 * M / T as the fraction <<2M, T>>
Ratio(a, b) ==
    IF Len(a) + Len(b) = 0 THEN <<1, 1>>
    ELSE <<2 * MatchingTotal(a, 1, Len(a), b, 1, Len(b)), Len(a) + Len(b)>>

\* the characters of the knowledge base and of the queries, in code point order
CodePointOrder ==
    " 0123456789ABCDEFGHIJKLMNOPQRSTUVWXYZ_abcdefghijklmnopqrstuvwxyz"

CodePoint(c) == CHOOSE i \in 1..Len(CodePointOrder) : CharAt(CodePointOrder, i) = c

\* x < y for Python strings
StrLess(x, y) ==
    \E n \in 0..Min2(Len(x), Len(y)) :
        /\ SubSeq(x, 1, n) = SubSeq(y, 1, n)
        /\ \/ n = Len(x) /\ n < Len(y)
           \/ /\ n < Len(x) /\ n < Len(y)
              /\ CodePoint(CharAt(x, n + 1)) < CodePoint(CharAt(y, n + 1))

\* cutoff=0.5 of find_best_match, as a fraction
CutoffNum == 1
CutoffDen == 2

\* the first element of get_close_matches(word, possibilities, n=3,
\* cutoff=0.5), None when the list is empty: heapq.nlargest orders the
\* (ratio, possibility) pairs, so the best is the largest such pair
BestCloseMatch(word, possibilities) ==
    LET scored == {<<Ratio(possibilities[i], word), possibilities[i]>> :
                        i \in 1..Len(possibilities)}
    IN  CHOOSE best \in
            {IF result = {} THEN None
             ELSE (CHOOSE r \in result :
                    \A o \in result :
                        \/ FracLess(o[1], r[1])
                        \/ FracEq(o[1], r[1])
                           /\ (o[2] = r[2] \/ StrLess(o[2], r[2])))[2] :
             result \in
                {{r \in scored : ~FracLess(r[1], <<CutoffNum, CutoffDen>>)}}} : TRUE

(***************************************************************************)
(* IrrigationGuide.find_best_match                                         *)
(***************************************************************************)
\* query == name.lower()
NameExact(i, q) == q = Lower(resources[i].name)

\* any(query == kw.lower() for kw in data.get("keywords", []))
KeywordExact(i, q) == q \in keyword_words[i]

KeywordInQuery(i, q) ==
    LET kws == Get(resources[i], "keywords", <<>>)
    IN  \E k \in 1..Len(kws) : Contains(kws[k], q)

DescriptionOverlap(i, q) ==
    Cardinality(description_words[i] \cap WordSet(q)) >= 2

Found(i) == [name |-> resources[i].name, resource_type |-> resources[i].type]

NotFound == [name |-> None, resource_type |-> None]

\* find_best_match(query) as the entry it returns (0 for None, None) and the
\* return statement it leaves by
BestMatch(qry) ==
    LET q       == Strip(Lower(qry))
        \* first loop: exact name or exact keyword, entry by entry
        exact   == {i \in 1..NumResources : NameExact(i, q) \/ KeywordExact(i, q)}
        \* second loop: keyword in query or description words, entry by entry
        partial == {i \in 1..NumResources :
                        KeywordInQuery(i, q) \/ DescriptionOverlap(i, q)}
    IN  IF exact # {}
        THEN [index |-> FirstIndex(exact),
              stage |-> IF NameExact(FirstIndex(exact), q)
                        THEN "exact_name" ELSE "exact_keyword"]
        ELSE IF partial # {}
        THEN [index |-> FirstIndex(partial),
              stage |-> IF KeywordInQuery(FirstIndex(partial), q)
                        THEN "keyword_in_query" ELSE "description_words"]
        \* fallback: get_close_matches over all names
        ELSE CHOOSE result \in
            {IF match # None
             THEN [index |-> FirstIndex({i \in 1..NumResources :
                                            resources[i].name = match}),
                   stage |-> "close_match"]
             ELSE [index |-> 0, stage |-> "none"] :
             match \in
                {BestCloseMatch(q, [i \in 1..NumResources |->
                                        resources[i].name])}} : TRUE

find_best_match(qry) ==
    CHOOSE result \in
        {IF m.index = 0 THEN NotFound ELSE Found(m.index) :
            m \in {BestMatch(qry)}} : TRUE

(***************************************************************************)
(* Python floats (IEEE 754 doubles) of the score arithmetic.  A value v is *)
(* the integer v * 2^56, held as three limbs <<l2, l1, l0>> of base 2^20:  *)
(* v * 2^56 = l2 * 2^40 + l1 * 2^20 + l0.                                  *)
(***************************************************************************)
LimbBase == 1048576

RECURSIVE Pow2(_)
Pow2(n) == IF n = 0 THEN 1 ELSE 2 * Pow2(n - 1)

\* carries propagated into the higher limbs
BigNorm(x) ==
    LET c0 == x[3] \div LimbBase
        c1 == (x[2] + c0) \div LimbBase
    IN  <<x[1] + c1, (x[2] + c0) % LimbBase, x[3] % LimbBase>>

BigAdd(x, y) == BigNorm(<<x[1] + y[1], x[2] + y[2], x[3] + y[3]>>)

BigMulSmall(x, n) == BigNorm(<<x[1] * n, x[2] * n, x[3] * n>>)

BigLess(x, y) ==
    \/ x[1] < y[1]
    \/ x[1] = y[1] /\ x[2] < y[2]
    \/ x[1] = y[1] /\ x[2] = y[2] /\ x[3] < y[3]

\* the spacing of the doubles around x (1 below 2^53: such values are exact)
Ulp(x) ==
    IF x[1] < 8192 THEN 1
    ELSE Pow2((CHOOSE e \in 13..30 : Pow2(e) <= x[1] /\ x[1] < Pow2(e + 1)) - 12)

\* round to nearest double, ties to even
RoundToDouble(x) ==
    CHOOSE rounded \in
        {LET r == x[3] % u
             q == x[3] \div u
         IN  IF r = 0 THEN x
             ELSE IF 2 * r > u \/ (2 * r = u /\ q % 2 = 1)
                  THEN BigNorm(<<x[1], x[2], x[3] - r + u>>)
                  ELSE <<x[1], x[2], x[3] - r>> :
         u \in {Ulp(x)}} : TRUE

\* the double 0.1 = 0x1.999999999999ap-4
Tenth == <<6553, 629145, 629146>>

\* the double 1.0
One == <<65536, 0, 0>>

Zero == <<0, 0, 0>>

\* the double h * 0.5 for a small integer h (exact)
Halves(h) == <<32768 * h, 0, 0>>

(***************************************************************************)
(* IrrigationGuide.get_suggestions                                         *)
(***************************************************************************)
\* the relevance score of entry i
SuggestionScore(i, query_words) ==
    LET partial == {<<q_word, k_word>> \in query_words \X keyword_words[i] :
                        Contains(q_word, k_word) \/ Contains(k_word, q_word)}
        \* score after the integer additions, in halves
        matches == 6 * Cardinality(query_words \cap name_words[i])
                   + 4 * Cardinality(query_words \cap keyword_words[i])
                   + 2 * Cardinality(partial)
        \* score += len(query_words & description_words) * 0.5
        described == matches + Cardinality(query_words \cap description_words[i])
        \* data.get("importance", 5) * 0.1
        weight == RoundToDouble(BigMulSmall(Tenth, Get(resources[i], "importance", 5)))
    IN  RoundToDouble(BigAdd(Halves(described), weight))

\* the suggestion dict built for entry i with the given score
Suggestion(i, score) ==
    [name     |-> resources[i].name,
     score    |-> score,
     type     |-> resources[i].type,
     category |-> Get(resources[i], "category", "")]

\* suggestions.sort(key=score, reverse=True), a stable sort: position k holds
\* the candidate that has k - 1 candidates before it
SortedCandidates(query_words) ==
    LET scored == {<<i, SuggestionScore(i, query_words)>> :
                        i \in {n \in 1..NumResources : resources[n].type # "chat"}}
        Before(a, b) == BigLess(b[2], a[2]) \/ (a[2] = b[2] /\ a[1] < b[1])
    IN  CHOOSE sorted \in
            {[k \in 1..Cardinality(cand) |->
                CHOOSE suggestion \in
                    {Suggestion(c[1], c[2]) :
                        c \in {d \in cand :
                                Cardinality({b \in cand : Before(b, d)}) = k - 1}} :
                    TRUE] :
             cand \in {{c \in scored : BigLess(Zero, c[2])}}} : TRUE

\* every candidate is taken, whatever its category
AcceptsAny(suggestion, categories_used) == TRUE

\* a further candidate is taken when its category is new or 3 categories
\* are already used
Accepts(suggestion, categories_used) ==
    suggestion.category \notin categories_used \/ Cardinality(categories_used) >= 3

RECURSIVE SelectDiverse(_, _, _, _, _)
\* the loop that fills final_suggestions
SelectDiverse(suggestions, k, limit, final_suggestions, categories_used) ==
    IF k > Len(suggestions) \/ Len(final_suggestions) >= limit
    THEN final_suggestions
    ELSE IF Accepts(suggestions[k], categories_used)
         THEN SelectDiverse(suggestions, k + 1, limit,
                            Append(final_suggestions, suggestions[k]),
                            categories_used \cup {suggestions[k].category})
         ELSE SelectDiverse(suggestions, k + 1, limit,
                            final_suggestions, categories_used)

get_suggestions(qry, limit) ==
    Prefix(SelectDiverse(SortedCandidates(WordSet(Lower(qry))), 1, limit, <<>>, {}),
           limit)

(***************************************************************************)
(* IrrigationGuide: conversation history.                                  *)
(***************************************************************************)
\* the Python values a caller passes as user_id
NoneValue   == [type |-> "NoneType"]
IntValue(n) == [type |-> "int", int |-> n]
StrValue(s) == [type |-> "str", str |-> s]

\* bool(value), as in "if user_id:"
Truthy(value) ==
    CASE value.type = "NoneType" -> FALSE
      [] value.type = "int"      -> value.int # 0
      [] value.type = "str"      -> value.str # ""

\* list[key] for a Python list
ListGetItem(list, key) ==
    IF key.type # "int" THEN Raises("TypeError")
    ELSE IF key.int >= Len(list) \/ key.int < -Len(list) THEN Raises("IndexError")
    ELSE Returns(list[(key.int % Len(list)) + 1])

\* list[key] = value for a Python list
ListSetItem(list, key, value) ==
    IF key.type # "int" THEN Raises("TypeError")
    ELSE IF key.int >= Len(list) \/ key.int < -Len(list) THEN Raises("IndexError")
    ELSE Returns([i \in 1..Len(list) |->
                    IF i = (key.int % Len(list)) + 1 THEN value ELSE list[i]])

\* key in list
ListContains(list, key) == \E i \in 1..Len(list) : list[i] = key

\* the interactions kept per user, and the length a stored response is cut to
HistoryLimit  == 20
ResponseLimit == 500

\* add_to_conversation_history(user_id, query, response) on the list
\* history (the timestamp of the interaction is left out): the new value of
\* self.conversation_history, or the exception raised
add_to_conversation_history(history, uid, qry, response) ==
    LET interaction == [query |-> qry, response |-> Prefix(response, ResponseLimit)]
        created == IF ~ListContains(history, uid)
                   THEN ListSetItem(history, uid, <<>>)
                   ELSE Returns(history)
    IN  IF created.raised THEN created
        ELSE LET entry == ListGetItem(created.value, uid)
             IN  IF entry.raised THEN entry
                 ELSE LET appended == Append(entry.value, interaction)
                          kept == IF Len(appended) > HistoryLimit
                                  THEN SubSeq(appended,
                                              Len(appended) - HistoryLimit + 1,
                                              Len(appended))
                                  ELSE appended
                      IN  ListSetItem(created.value, uid, kept)

\* self.conversation_history[user_id] as get_conversation_context reads it:
\* nothing when user_id is not in the list
HistoryOf(history, uid) ==
    IF ~ListContains(history, uid) THEN <<>>
    ELSE LET entry == ListGetItem(history, uid)
         IN  IF entry.raised THEN <<>> ELSE entry.value

(***************************************************************************)
(* IrrigationGuide.get_help_response                                       *)
(***************************************************************************)
\* any(phrase in text for phrase in phrases)
AnyIn(phrases, text) == \E k \in 1..Len(phrases) : Contains(phrases[k], text)

\* self.resources[ResourceType.CHAT].get(response_key, {})
ChatData(response_key) ==
    LET found == {i \in 1..NumResources :
                    resources[i].type = "chat" /\ resources[i].name = response_key}
    IN  IF found = {} THEN [keys |-> {}] ELSE resources[FirstIndex(found)]

\* _format_chat_response(response_key): the text of chat_data["response"] is
\* represented by the key of the chat entry; the "actions", "categories" and
\* "quick_actions" of the payload are left out
_format_chat_response(response_key) ==
    LET chat_data == ChatData(response_key)
        response  == [matched       |-> TRUE,
                      type          |-> "chat",
                      response      |-> IF "response" \in chat_data.keys
                                        THEN response_key ELSE "",
                      response_type |-> "chat"]
    IN  IF "suggestions" \in chat_data.keys
        THEN response @@
             [suggestions |->
                [k \in 1..Len(chat_data.suggestions) |->
                    [name |-> chat_data.suggestions[k], type |-> "suggestion"]]]
        ELSE response

\* _check_special_commands(query): a payload, or None
_check_special_commands(qry) ==
    LET query_lower == Lower(qry)
    IN  IF AnyIn(<<"clear chat", "delete history", "reset conversation">>, query_lower)
        THEN _format_chat_response("clear_chat_confirmation")
        ELSE IF AnyIn(<<"settings", "preferences", "options">>, query_lower)
        THEN _format_chat_response("settings_info")
        ELSE IF AnyIn(<<"emergency", "urgent", "help now">>, query_lower)
        THEN _format_chat_response("emergency_info")
        ELSE NoneValue

\* _check_conversational_phrases(query): a payload, or None
_check_conversational_phrases(qry) ==
    LET query_lower == Lower(qry)
    IN  IF AnyIn(<<"hello", "hi", "hey", "greetings", "good morning",
                   "good afternoon">>, query_lower)
        THEN _format_chat_response("greeting")
        ELSE IF AnyIn(<<"thank", "thanks", "appreciate", "grateful">>, query_lower)
        THEN _format_chat_response("thanks")
        ELSE IF AnyIn(<<"bye", "goodbye", "see you", "farewell">>, query_lower)
        THEN _format_chat_response("goodbye")
        ELSE NoneValue

\* get_contact_response(): the methods, social media and quick actions of
\* the payload are fixed data and left out
\* a dict that the running call created
Created == "created by the call"

\* the items that object[key] = ... for the given keys overwrites in the
\* knowledge base: none when the object is a dict the call created; reads of
\* the knowledge base go to resources, which is its content as long as
\* nothing was overwritten
Assigned(object, keys) ==
    IF object = Created THEN {} ELSE {<<object, key>> : key \in keys}

\* response = contact_info: the response is the dict of the "contact" entry
ContactEntryItself == "contact"

\* response = {...} of get_contact_response: the dict the response is built in
ContactResponseObject == Created

\* response = {...} of _format_chat_response
ChatResponseObject == Created

\* response = {...} and its "resource": {...} in get_help_response
ResourceResponseObject == Created

\* the keys _format_chat_response assigns after it built its response
ChatKeysAssigned(response_key) ==
    ChatData(response_key).keys
    \cap {"suggestions", "actions", "categories", "quick_actions"}

get_contact_response ==
    [matched     |-> TRUE,
     type        |-> "contact",
     title       |-> "Contact Information",
     description |-> "Get in touch with our support team for assistance and inquiries"]

\* get_emergency_contact_info(): the contacts and quick actions are left out
get_emergency_contact_info ==
    [matched     |-> TRUE,
     type        |-> "emergency_contact",
     description |-> "Immediate assistance for critical irrigation system issues"]

\* _enhance_with_contact_intelligence(query, response)
_enhance_with_contact_intelligence(qry, response) ==
    LET query_lower == Lower(qry)
        contact_keywords ==
            <<"contact", "support", "help", "call", "email", "phone",
              "number", "address", "location", "talk to", "speak with",
              "emergency", "urgent", "problem", "issue", "broken">>
        with_contact == response @@ [contact_info |-> get_contact_response]
    IN  IF AnyIn(contact_keywords, query_lower)
        THEN IF AnyIn(<<"emergency", "urgent", "critical", "broken",
                        "not working">>, query_lower)
             THEN with_contact @@ [emergency_info |-> get_emergency_contact_info]
             ELSE with_contact
        ELSE response

\* the stages of get_help_response an injected fault can be raised in
Stages ==
    {"history", "intent", "special", "spelling", "conversational", "contact",
     "resolution", "assembly"}

\* limit=5 of get_suggestions
DefaultLimit == 5

\* the payload returned by the except clause
ErrorPayload ==
    [matched       |-> FALSE,
     message       |-> "I encountered an error processing your request. " \o
                       "Please try again or contact support if the issue persists.",
     suggestions   |-> <<>>,
     response_type |-> "error"]

\* the outcome of a part of the try block and the conversation history it leaves
Outcome(outcome, history) ==
    [outcome |-> outcome, history |-> history, overwritten |-> {}]

\* the result of a stage that made the given item assignments
Overwriting(writes, result) == [result EXCEPT !.overwritten = @ \cup writes]

\* if user_id: self.add_to_conversation_history(user_id, query, response)
Remember(history, uid, qry, response, fault) ==
    IF ~Truthy(uid) THEN Returns(history)
    ELSE IF fault = "history" THEN Raises("Exception")
    ELSE add_to_conversation_history(history, uid, qry, response)

\* the history is appended to, then the payload is returned
RememberAndReturn(history, uid, qry, response, payload, fault) ==
    LET h == Remember(history, uid, qry, response, fault)
    IN  IF h.raised THEN Outcome(h, history)
        ELSE Outcome(Returns(payload), h.value)

\* if has_spelling_issues: response['spelling_correction'] = {...}
WithSpelling(response, has_spelling_issues, qry, spell) ==
    IF has_spelling_issues
    THEN response @@
         [spelling_correction |->
            [original_query  |-> qry,
             corrected_query |-> spell.corrected_query,
             corrections     |-> spell.corrections]]
    ELSE response

\* response["resource"] for entry i: the icon, navigation instructions, url
\* and command details are left out
ResourceDetails(i) ==
    LET resource == [name        |-> resources[i].name,
                     description |-> resources[i].description]
    IN  IF resources[i].type = "route"
        THEN resource @@ [category   |-> Get(resources[i], "category", ""),
                          importance |-> Get(resources[i], "importance", 5)]
        ELSE resource

\* the resource-based response for entry i
AssembleResource(history, qry, uid, spell, has_spelling_issues, i, fault) ==
    IF fault = "assembly" THEN Outcome(Raises("Exception"), history)
    ELSE IF "description" \notin resources[i].keys
    THEN Outcome(Raises("KeyError"), history)
    ELSE CHOOSE result \in UNION {
            {Overwriting(
                Assigned(ResourceResponseObject,
                         (DOMAIN enhanced \ DOMAIN response)
                         \cup (DOMAIN ResourceDetails(i) \ {"name", "description"})),
                RememberAndReturn(
                    history, uid, qry, "Found resource: " \o resources[i].name,
                    enhanced, fault)) :
             enhanced \in
                {_enhance_with_contact_intelligence(
                    spell.corrected_query,
                    WithSpelling(response, has_spelling_issues, qry, spell))}} :
            response \in
                {[matched         |-> TRUE,
                  type            |-> resources[i].type,
                  query           |-> qry,
                  corrected_query |-> IF has_spelling_issues
                                      THEN spell.corrected_query ELSE None,
                  resource        |-> ResourceDetails(i),
                  suggestions     |-> get_suggestions(spell.corrected_query,
                                                      DefaultLimit),
                  response_type   |-> "success"]}} : TRUE

\* find_best_match and the response when it finds nothing
ResolveResource(history, qry, uid, spell, has_spelling_issues, fault) ==
    IF fault = "resolution" THEN Outcome(Raises("Exception"), history)
    ELSE CHOOSE result \in
            {IF m.index = 0
             THEN Overwriting(
                    IF has_spelling_issues
                    THEN Assigned(ResourceResponseObject, {"spelling_correction"})
                    ELSE {},
                    Outcome(
                    Returns(WithSpelling(
                        [matched       |-> FALSE,
                         message       |-> "I couldn't find an exact match for " \o
                                           "your query. Try being more specific " \o
                                           "or ask about:",
                         suggestions   |-> get_suggestions(spell.corrected_query,
                                                           DefaultLimit),
                         response_type |-> "error"],
                        has_spelling_issues, qry, spell)),
                    history))
             ELSE AssembleResource(history, qry, uid, spell, has_spelling_issues,
                                   m.index, fault) :
             m \in {BestMatch(spell.corrected_query)}} : TRUE

\* the check for contact-related queries
ContactQuery(history, qry, uid, spell, has_spelling_issues, fault) ==
    LET corrected_lower == Lower(spell.corrected_query)
    IN  IF fault = "contact" THEN Outcome(Raises("Exception"), history)
        ELSE IF AnyIn(<<"contact", "support", "help", "call", "email", "phone",
                        "emergency">>, corrected_lower)
        THEN LET object == IF Contains("emergency", corrected_lower)
                           THEN Created ELSE ContactResponseObject
             IN  CHOOSE assigned \in
                    {IF result.outcome.raised \/ ~has_spelling_issues THEN result
                     ELSE Overwriting(Assigned(object, {"spelling_correction"}),
                                      result) :
                     result \in
                        {RememberAndReturn(
                            history, uid, qry, "Provided contact information",
                            WithSpelling(IF Contains("emergency", corrected_lower)
                                         THEN get_emergency_contact_info
                                         ELSE get_contact_response,
                                         has_spelling_issues, qry, spell),
                            fault)}} : TRUE
        ELSE ResolveResource(history, qry, uid, spell, has_spelling_issues, fault)

\* the check for conversational phrases
ConversationalPhrase(history, qry, uid, spell, fault) ==
    LET has_spelling_issues == Lower(spell.corrected_query) # Lower(qry)
    IN  IF fault = "conversational" THEN Outcome(Raises("Exception"), history)
        ELSE CHOOSE result \in
            {IF conversational_response # NoneValue
             THEN Overwriting(
                    Assigned(ChatResponseObject,
                             ChatKeysAssigned(conversational_response.response)),
                    RememberAndReturn(history, uid, qry,
                                      conversational_response.response,
                                      conversational_response, fault))
             ELSE ContactQuery(history, qry, uid, spell, has_spelling_issues,
                               fault) :
             conversational_response \in
                {_check_conversational_phrases(spell.corrected_query)}} : TRUE

\* the spelling correction of the query
SpellingCheck(history, qry, uid, fault) ==
    IF fault = "spelling" THEN Outcome(Raises("Exception"), history)
    ELSE CHOOSE result \in
            {ConversationalPhrase(history, qry, uid, spell, fault) :
                spell \in {correct_spelling(qry)}} : TRUE

\* the check for special commands
SpecialCommand(history, qry, uid, fault) ==
    IF fault = "special" THEN Outcome(Raises("Exception"), history)
    ELSE CHOOSE result \in
        {IF special_response # NoneValue
         THEN Overwriting(
                Assigned(ChatResponseObject,
                         ChatKeysAssigned(special_response.response)),
                RememberAndReturn(history, uid, qry, special_response.response,
                                  special_response, fault))
         ELSE SpellingCheck(history, qry, uid, fault) :
         special_response \in {_check_special_commands(qry)}} : TRUE

\* the match against the JSON intents
IntentMatch(history, d, qry, uid, pick, fault) ==
    IF fault = "intent" THEN Outcome(Raises("Exception"), history)
    ELSE CHOOSE result \in
        {IF json_response.raised THEN Outcome(json_response, history)
         ELSE IF /\ json_response.value.matched
                 /\ ~FracLess(json_response.value.confidence, Threshold)
         THEN RememberAndReturn(
                history, uid, qry, json_response.value.response,
                [matched       |-> TRUE,
                 type          |-> "json_intent",
                 query         |-> qry,
                 response      |-> json_response.value.response,
                 intent        |-> json_response.value.intent,
                 category      |-> json_response.value.category,
                 confidence    |-> json_response.value.confidence,
                 response_type |-> "success",
                 suggestions   |-> json_response.value.suggestions],
                fault)
         ELSE SpecialCommand(history, qry, uid, fault) :
         json_response \in {get_response(d, qry, pick)}} : TRUE

\* the try block of get_help_response
TryBlock(history, d, qry, uid, pick, fault) ==
    LET h == Remember(history, uid, qry, "Processing...", fault)
    IN  IF h.raised THEN Outcome(h, history)
        ELSE IntentMatch(h.value, d, qry, uid, pick, fault)

\* a handler that catches KeyError only: any other exception propagates
ExceptKeyError(body) ==
    IF body.outcome.raised /\ body.outcome.exception = "KeyError"
    THEN [outcome |-> Returns(ErrorPayload), history |-> body.history,
          logged |-> body.outcome.exception, overwritten |-> body.overwritten]
    ELSE [outcome |-> body.outcome, history |-> body.history,
          logged |-> IF body.outcome.raised THEN body.outcome.exception ELSE None,
          overwritten |-> body.overwritten]

\* except Exception as e: the exception is logged and the error payload is
\* returned in place of what the try block did
ExceptException(body) ==
    IF body.outcome.raised
    THEN [outcome |-> Returns(ErrorPayload), history |-> body.history,
          logged |-> body.outcome.exception, overwritten |-> body.overwritten]
    ELSE [outcome |-> body.outcome, history |-> body.history, logged |-> None,
          overwritten |-> body.overwritten]

\* get_help_response(query, user_id=uid) on the conversation history and the
\* intents d, when random.choice draws response number pick and the stage
\* named by fault ("none" for no stage) raises an exception when it is reached
get_help_response(history, d, qry, uid, pick, fault) ==
    ExceptException(TryBlock(history, d, qry, uid, pick, fault))

(***************************************************************************)
(* Values shared by the specifications.                                    *)
(***************************************************************************)
\* the chatbot_data directory does not exist
NoDirectory ==
    [dir_exists |-> FALSE, help |-> Missing, contact |-> Missing,
     privacy |-> Missing, terms |-> Missing, system |-> Missing]

\* the chatbot_data directory exists and holds no intent file
EmptyDirectory == [NoDirectory EXCEPT !.dir_exists = TRUE]

\* no thread is in reload_intents / find_matching_intent
NoReloader == [pc |-> "idle"]
NoMatcher  == [pc |-> "idle"]

(***************************************************************************)
(* SpecSpell: correct_spelling applied to a query, then to its own output. *)
(***************************************************************************)
MaxSpellWords == 1

SpellWords ==
    {common_misspellings[i][1] : i \in 1..Len(common_misspellings)}
    \cup {common_misspellings[i][2] : i \in 1..Len(common_misspellings)}
    \cup {Capitalize(common_misspellings[i][1]) : i \in 1..Len(common_misspellings)}
    \cup SeqToSet(irrigation_terms)
    \cup {"PUMP", "Pumq", "pumq", "on", "hello", "the", "xyzzy", "nonsense", "i"}

\* queries whose words stand in other whitespace than single blanks
SpacedQueries == {"pump  valve", " pump", "pump ", "pump valve", "  "}

SpellQueries ==
    {Join(ws) : ws \in SeqsUpTo(SpellWords, MaxSpellWords)} \cup SpacedQueries

InitSpell ==
    /\ op = "none"
    /\ query \in SpellQueries
    /\ user_id = NoneValue
    /\ ret = NoneValue
    /\ raised = FALSE
    /\ conversation_history = <<>>
    /\ files = NoDirectory
    /\ intents = <<>>
    /\ logged = None
    /\ requested_limit = DefaultLimit
    /\ reloader = NoReloader
    /\ matcher = NoMatcher
    /\ overwritten = {}
    /\ cache = <<>>
    /\ db = <<>>
    /\ request = <<>>
    /\ session = <<>>
    /\ threads = <<>>
    /\ clock = 0
    /\ events = <<>>

\* corrected_query, corrections = self.spelling_corrector.correct_spelling(query)
CorrectSpelling ==
    /\ op = "none"
    /\ ret' = correct_spelling(query)
    /\ op' = "correct_spelling"
    /\ UNCHANGED <<query, user_id, raised, conversation_history, files, intents,
                   logged, requested_limit,
                   reloader, matcher,
                   overwritten,
                   cache,
                   db,
                   request,
                   session,
                   threads,
                   clock,
                   events>>

\* the corrected text is normalized once more
CorrectSpellingAgain ==
    /\ op = "correct_spelling"
    /\ query' = ret.corrected_query
    /\ ret' = correct_spelling(ret.corrected_query)
    /\ op' = "correct_spelling_again"
    /\ UNCHANGED <<user_id, raised, conversation_history, files, intents,
                   logged, requested_limit,
                   reloader, matcher,
                   overwritten,
                   cache,
                   db,
                   request,
                   session,
                   threads,
                   clock,
                   events>>

NextSpell == CorrectSpelling \/ CorrectSpellingAgain

SpecSpell == InitSpell /\ [][NextSpell]_vars

\* C8: spelling normalization is idempotent: correct_spelling applied to the
\* text it returned gives that text back unchanged and reports no corrections.
C8_SpellingIdempotent ==
    op = "correct_spelling_again" =>
        /\ ret.corrected_query = query
        /\ ret.corrections = <<>>

\* C13: correct_spelling keeps the tokens in their order and the whitespace
\* between them: it returns as many tokens as the query has, a query in
\* which no token is corrected is returned character for character, and the
\* empty query yields the empty string with no corrections.
C13_SpellingKeepsWhitespace ==
    op = "correct_spelling" =>
        /\ Len(Split(ret.corrected_query)) = Len(Split(query))
        /\ ret.corrections = <<>> => ret.corrected_query = query
        /\ query = "" => (ret.corrected_query = "" /\ ret.corrections = <<>>)

(***************************************************************************)
(* SpecHelp: calls of get_help_response and of                             *)
(* JSONIntentLoader.get_response on a guide whose intents were loaded at   *)
(* construction.                                                           *)
(***************************************************************************)
\* an intent as the JSON files define it
Intent(tag, patterns, responses) ==
    [keys |-> {"tag", "patterns", "responses"},
     tag |-> tag, patterns |-> patterns, responses |-> responses]

\* an intent whose JSON object has no "responses"
IntentWithoutResponses(tag, patterns) ==
    [keys |-> {"tag", "patterns"}, tag |-> tag, patterns |-> patterns]

\* the responses an intent of the help file offers, at most MaxResponses
MaxResponses == 2

ManualResponses ==
    SubSeq(<<"The user manual is on the Help page.",
             "Open Help and choose Download manual.",
             "You can download the manual from the Help page.">>,
           1, MaxResponses)

\* a chatbot_data directory with a help file
HelpDirectory ==
    [EmptyDirectory EXCEPT
        !.help = FileOf(<<Intent("user_manual",
                                 <<"user manual", "Where is the manual">>,
                                 ManualResponses),
                          IntentWithoutResponses("privacy_policy",
                                                 <<"privacy policy">>)>>)]

HelpFiles == {NoDirectory, HelpDirectory}

HelpQueries ==
    {"user manual", "where is the user manual", "manual user",
     "privacy policy", "clear chat", "settings", "emergency", "hello",
     "thanks", "contact support", "pump", "manualy", "dashboard",
     "xyzzy nonsense", "greeting", "", "see you", "broken pump", "pum on"}

UserIds == {NoneValue, IntValue(3), StrValue("u")}

\* the numbers random.choice may draw in get_response(query): one per
\* response of the intent that matches
Draws(d, qry) ==
    LET m == find_matching_intent(d, qry, Threshold)
    IN  IF m.found /\ "responses" \in IntentAt(d, m.category, m.index).keys
        THEN 1..Max2(1, Len(IntentAt(d, m.category, m.index).responses))
        ELSE {1}

InitHelp ==
    /\ op = "none"
    /\ query \in HelpQueries
    /\ user_id \in UserIds
    /\ ret = NoneValue
    /\ raised = FALSE
    /\ conversation_history = <<>>
    /\ files \in HelpFiles
    /\ intents = load_all_intents(<<>>, files)
    /\ logged = None
    /\ requested_limit = DefaultLimit
    /\ reloader = NoReloader
    /\ matcher = NoMatcher
    /\ overwritten = {}
    /\ cache = <<>>
    /\ db = <<>>
    /\ request = <<>>
    /\ session = <<>>
    /\ threads = <<>>
    /\ clock = 0
    /\ events = <<>>

\* guide.get_help_response(query, user_id=user_id)
GetHelpResponse ==
    /\ op = "none"
    /\ \E pick \in Draws(intents, query), fault \in Stages \cup {"none"} :
        \E result \in {get_help_response(conversation_history, intents, query,
                                          user_id, pick, fault)} :
            /\ raised' = result.outcome.raised
            /\ ret' = IF result.outcome.raised THEN NoneValue
                      ELSE result.outcome.value
            /\ conversation_history' = result.history
            /\ logged' = result.logged
            /\ overwritten' = overwritten \cup result.overwritten
            /\ op' = IF fault = "none" THEN "get_help_response"
                     ELSE "get_help_response_fault"
    /\ UNCHANGED <<query, user_id, files, intents, requested_limit, reloader,
                   matcher,
                   cache,
                   db,
                   request,
                   session,
                   threads,
                   clock,
                   events>>

\* guide.json_loader.get_response(query)
GetResponse ==
    /\ op = "none"
    /\ \E pick \in Draws(intents, query) :
        \E result \in {get_response(intents, query, pick)} :
            /\ raised' = result.raised
            /\ ret' = IF result.raised THEN NoneValue ELSE result.value
    /\ op' = "get_response"
    /\ UNCHANGED <<query, user_id, conversation_history, files, intents,
                   logged, requested_limit,
                   reloader, matcher,
                   overwritten,
                   cache,
                   db,
                   request,
                   session,
                   threads,
                   clock,
                   events>>

\* the caller goes on to its next call
NextCall ==
    /\ op # "none"
    /\ op' = "none"
    /\ query' \in HelpQueries
    /\ user_id' \in UserIds
    /\ ret' = NoneValue
    /\ raised' = FALSE
    /\ logged' = None
    /\ UNCHANGED <<conversation_history, files, intents, requested_limit,
                   reloader, matcher,
                   overwritten,
                   cache,
                   db,
                   request,
                   session,
                   threads,
                   clock,
                   events>>

NextHelp == GetHelpResponse \/ GetResponse \/ NextCall

SpecHelp == InitHelp /\ [][NextHelp]_vars

\* C1: after get_help_response(query, user_id=u) for a user id u, the
\* conversation history kept for u holds the entries appended by the most
\* recent calls, oldest first, and never more than 20 of them: it is not
\* empty and its last entry is the one appended for this query.
C1_HistoryKeepsLatestCalls ==
    (op = "get_help_response" /\ Truthy(user_id)) =>
        LET kept == HistoryOf(conversation_history, user_id)
        IN  /\ Len(kept) > 0
            /\ Len(kept) <= HistoryLimit
            /\ kept[Len(kept)].query = query

\* C2: get_help_response never raises to its caller, and when a stage of it
\* raised (the exception is the one the call logged) the call returned the
\* generic error payload: matched false, response_type "error", no
\* suggestions.
C2_NeverRaises ==
    op \in {"get_help_response", "get_help_response_fault"} =>
        /\ ~raised
        /\ logged # None =>
            /\ ret = ErrorPayload
            /\ ret.matched = FALSE
            /\ ret.response_type = "error"
            /\ ret.suggestions = <<>>

\* a call with a user id raised in the history append, a call without one
\* raised in the assembly of a chat entry's response; both returned the
\* error payload
C2_Witness ==
    /\ op = "get_help_response"
    /\ logged \in {"IndexError", "TypeError", "KeyError"}
    /\ ret = ErrorPayload
    /\ ~raised

\* the confidence values a returned payload contains
ConfidencesOf(payload) ==
    IF "confidence" \in DOMAIN payload THEN {payload.confidence} ELSE {}

\* the scores of the suggestions a returned payload contains (the
\* suggestions of an intent match are plain texts)
SuggestionScoresOf(payload) ==
    IF \/ op = "get_response"
       \/ "suggestions" \notin DOMAIN payload
       \/ ("type" \in DOMAIN payload /\ payload.type = "json_intent")
    THEN {}
    ELSE {payload.suggestions[k].score :
            k \in {j \in 1..Len(payload.suggestions) :
                        "score" \in DOMAIN payload.suggestions[j]}}

\* a fraction <<n, d>> lies in [0, 1]
InUnitInterval(x) == 0 <= x[1] /\ x[1] <= x[2]

\* C5 (as amended): every confidence value in the result of
\* get_help_response and of JSONIntentLoader.get_response lies in [0, 1];
\* every suggestion score in the result is a relevance score greater than 0.
C5_ConfidenceInUnitInterval ==
    (op \in {"get_help_response", "get_help_response_fault", "get_response"}
        /\ ~raised) =>
        /\ \A c \in ConfidencesOf(ret) : InUnitInterval(c)
        /\ \A s \in SuggestionScoresOf(ret) : BigLess(Zero, s)

\* an intent matched by containment: confidence 0.8, strictly inside [0, 1]
C5_Witness ==
    /\ op = "get_help_response"
    /\ ret.matched
    /\ ret.type = "json_intent"
    /\ FracEq(ret.confidence, ScoreContained)

\* C5: every confidence value and every suggestion score in the result of
\* get_help_response and of JSONIntentLoader.get_response lies in [0, 1].
C5_ScoresInUnitInterval ==
    (op \in {"get_help_response", "get_help_response_fault", "get_response"}
        /\ ~raised) =>
        /\ \A c \in ConfidencesOf(ret) : InUnitInterval(c)
        /\ \A s \in SuggestionScoresOf(ret) : ~BigLess(s, Zero) /\ ~BigLess(One, s)

\* no structured intent matches the query
NoIntentMatches == ~find_matching_intent(intents, query, Threshold).found

\* C11: for the query "hello", with no structured intent matching it,
\* get_help_response returns the greeting chat payload with its suggestion
\* list (checked for calls without a user id, which do not touch the
\* conversation history).
C11_HelloReturnsGreeting ==
    (op = "get_help_response" /\ query = "hello" /\ user_id = NoneValue
        /\ NoIntentMatches) =>
        /\ ret = _format_chat_response("greeting")
        /\ "suggestions" \in DOMAIN ret

\* C12: for the query "pum on", with no structured intent matching it,
\* get_help_response corrects the text to "pump on", returns the command
\* named "pump", and reports the correction of 'pum' to 'pump' (checked for
\* calls without a user id).
C12_PumOnReturnsPumpCommand ==
    (op = "get_help_response" /\ query = "pum on" /\ user_id = NoneValue
        /\ NoIntentMatches) =>
        /\ ret.matched
        /\ ret.type = "command"
        /\ ret.resource.name = "pump"
        /\ "spelling_correction" \in DOMAIN ret
        /\ ret.spelling_correction.corrected_query = "pump on"
        /\ \E k \in 1..Len(ret.spelling_correction.corrections) :
                ret.spelling_correction.corrections[k] = <<"pum", "pump">>

\* what a payload says of the match: its matched flag, its response type and
\* the resource it resolved, if it names one
Resolved(payload) ==
    [matched       |-> payload.matched,
     response_type |-> payload.response_type,
     resource      |-> IF "resource" \in DOMAIN payload
                       THEN {payload.resource} ELSE {}]

\* what get_help_response(query) says of the match when it is called
\* without a user id, for each response random.choice can draw
WithoutUserId ==
    {Resolved(get_help_response(conversation_history, intents, query,
                                NoneValue, pick, "none").outcome.value) :
        pick \in Draws(intents, query)}

\* C25: get_help_response(query, user_id=u) returns the matched flag, the
\* response type and the resolved resource that get_help_response(query)
\* returns without a user id.
C25_UserIdOnlyAddsHistory ==
    (op = "get_help_response" /\ Truthy(user_id)) =>
        Resolved(ret) \in WithoutUserId

(***************************************************************************)
(* SpecMatch: find_best_match applied to a query.                          *)
(***************************************************************************)
\* the queries are the resource names, as written and capitalized, and the
\* phrases of at most MaxMatchWords words of MatchWords
MaxMatchWords == 2

MatchWords == {"system", "and", "pump", "current", "weather", "sensor"}

MatchQueries ==
    {resources[i].name : i \in 1..NumResources}
    \cup {Capitalize(resources[i].name) : i \in 1..NumResources}
    \cup {Join(ws) : ws \in SeqsUpTo(MatchWords, MaxMatchWords)}

InitMatch ==
    /\ op = "none"
    /\ query \in MatchQueries
    /\ user_id = NoneValue
    /\ ret = NoneValue
    /\ raised = FALSE
    /\ conversation_history = <<>>
    /\ files = NoDirectory
    /\ intents = <<>>
    /\ logged = None
    /\ requested_limit = DefaultLimit
    /\ reloader = NoReloader
    /\ matcher = NoMatcher
    /\ overwritten = {}
    /\ cache = <<>>
    /\ db = <<>>
    /\ request = <<>>
    /\ session = <<>>
    /\ threads = <<>>
    /\ clock = 0
    /\ events = <<>>

\* resource_name, resource_type = self.find_best_match(query)
FindBestMatch ==
    /\ op = "none"
    /\ ret' = find_best_match(query)
    /\ op' = "find_best_match"
    /\ UNCHANGED <<query, user_id, raised, conversation_history, files, intents,
                   logged, requested_limit,
                   reloader, matcher,
                   overwritten,
                   cache,
                   db,
                   request,
                   session,
                   threads,
                   clock,
                   events>>

NextMatch == FindBestMatch

SpecMatch == InitMatch /\ [][NextMatch]_vars

\* C3: a query that equals, ignoring case, the name of a resource makes
\* find_best_match return that name with a resource type the name is
\* defined under, whatever exact keywords other resources have.
C3_ExactNameWins ==
    op = "find_best_match" =>
        \A i \in 1..NumResources :
            Lower(query) = Lower(resources[i].name) =>
                /\ ret.name = resources[i].name
                /\ \E j \in 1..NumResources :
                    /\ resources[j].name = ret.name
                    /\ resources[j].type = ret.resource_type

\* the entry find_best_match returned matches the query by its description
\* words only: not by its name and by none of its keywords
ReturnedForDescription ==
    \E i \in 1..NumResources :
        /\ resources[i].name = ret.name
        /\ resources[i].type = ret.resource_type
        /\ ~NameExact(i, Strip(Lower(query)))
        /\ ~KeywordExact(i, Strip(Lower(query)))
        /\ ~KeywordInQuery(i, Strip(Lower(query)))
        /\ DescriptionOverlap(i, Strip(Lower(query)))

\* C10: find_best_match returns a resource for the 2 words of its
\* description that the query holds only when no resource of any type has a
\* keyword that occurs in the query.
C10_KeywordBeforeDescription ==
    (op = "find_best_match" /\ ReturnedForDescription) =>
        \A i \in 1..NumResources : ~KeywordInQuery(i, Strip(Lower(query)))

(***************************************************************************)
(* SpecSuggest: get_suggestions applied to a query and a limit.            *)
(***************************************************************************)
\* the largest limit a caller passes
MaxLimit == 6

SuggestQueries ==
    {"", "pump", "water", "schedule", "moisture sensor", "xyzzy", "on the",
     "how do i turn on the pump", "Water Usage", "emergency stop",
     "system health", "weather forecast", "contact support", "help",
     "soil moisture threshold", "control", "data", "privacy", "zone", "manual"}

InitSuggest ==
    /\ op = "none"
    /\ query \in SuggestQueries
    /\ requested_limit \in 0..MaxLimit
    /\ user_id = NoneValue
    /\ ret = NoneValue
    /\ raised = FALSE
    /\ conversation_history = <<>>
    /\ files = NoDirectory
    /\ intents = <<>>
    /\ logged = None
    /\ reloader = NoReloader
    /\ matcher = NoMatcher
    /\ overwritten = {}
    /\ cache = <<>>
    /\ db = <<>>
    /\ request = <<>>
    /\ session = <<>>
    /\ threads = <<>>
    /\ clock = 0
    /\ events = <<>>

\* suggestions = self.get_suggestions(query, limit)
GetSuggestions ==
    /\ op = "none"
    /\ ret' = get_suggestions(query, requested_limit)
    /\ op' = "get_suggestions"
    /\ UNCHANGED <<query, user_id, raised, conversation_history, files, intents,
                   logged, requested_limit,
                   reloader, matcher,
                   overwritten,
                   cache,
                   db,
                   request,
                   session,
                   threads,
                   clock,
                   events>>

NextSuggest == GetSuggestions

SpecSuggest == InitSuggest /\ [][NextSuggest]_vars

\* the categories of the first k entries of a list of suggestions
CategoriesOf(suggestions, k) == {suggestions[j].category : j \in 1..k}

\* the categories that occur more than once among the first k entries
RepeatedCategories(suggestions, k) ==
    {c \in CategoriesOf(suggestions, k) :
        Cardinality({j \in 1..k : suggestions[j].category = c}) > 1}

\* the categories that have a qualifying candidate: an entry that is no chat
\* response and whose score for the query is greater than 0
QualifyingCategories ==
    {Get(resources[i], "category", "") :
        i \in {n \in 1..NumResources :
                /\ resources[n].type # "chat"
                /\ BigLess(Zero, SuggestionScore(n, WordSet(Lower(query))))}}

MaxIntents == 2

LoaderPatterns == {"pump", "pump on", "On pump"}

\* the pattern lists of an intent: no pattern, one pattern, or two different
\* patterns in either order
LoaderPatternLists ==
    {<<>>} \cup {<<p>> : p \in LoaderPatterns}
           \cup {ps \in LoaderPatterns \X LoaderPatterns : ps[1] # ps[2]}

LoaderQueries == {"pump on", "PUMP ON ", "on", "pump off", "valve", ""}

\* the file of a category whose intents have the given pattern lists; the
\* tag of an intent names its category and its place in the file
LoaderFile(category, pattern_lists) ==
    IF pattern_lists = <<>> THEN Missing
    ELSE FileOf([k \in 1..Len(pattern_lists) |->
                    Intent(category \o "_" \o ToString(k), pattern_lists[k],
                           <<"See the Help page.">>)])

InitLoader ==
    /\ op = "none"
    /\ query \in LoaderQueries
    /\ user_id = NoneValue
    /\ ret = NoneValue
    /\ raised = FALSE
    /\ conversation_history = <<>>
    /\ \E pattern_lists \in SeqsUpTo(LoaderPatternLists, MaxIntents) :
        \E n \in 0..Len(pattern_lists) :
            files = [EmptyDirectory EXCEPT
                        !.help = LoaderFile("help", SubSeq(pattern_lists, 1, n)),
                        !.contact = LoaderFile("contact",
                                               SubSeq(pattern_lists, n + 1,
                                                      Len(pattern_lists)))]
    /\ intents = load_all_intents(<<>>, files)
    /\ logged = None
    /\ requested_limit = DefaultLimit
    /\ reloader = NoReloader
    /\ matcher = NoMatcher
    /\ overwritten = {}
    /\ cache = <<>>
    /\ db = <<>>
    /\ request = <<>>
    /\ session = <<>>
    /\ threads = <<>>
    /\ clock = 0
    /\ events = <<>>

\* intent, category, score = loader.find_matching_intent(query)
FindMatchingIntent ==
    /\ op = "none"
    /\ ret' = find_matching_intent(intents, query, Threshold)
    /\ op' = "find_matching_intent"
    /\ UNCHANGED <<query, user_id, raised, conversation_history, files, intents,
                   logged, requested_limit, reloader, matcher,
                   overwritten,
                   cache,
                   db,
                   request,
                   session,
                   threads,
                   clock,
                   events>>

NextLoader == FindMatchingIntent \/ GetResponse

SpecLoader == InitLoader /\ [][NextLoader]_vars

\* the places of the loaded intents, <<number of the category, number of
\* the intent in its list>>, and the intent at a place
Places ==
    UNION {{<<c, k>> : k \in 1..Len(intents[c][2].intents)} : c \in 1..Len(intents)}

PlacedIntent(p) == intents[p[1]][2].intents[p[2]]

\* place p comes before place r in category order, then list order
Earlier(p, r) == p[1] < r[1] \/ (p[1] = r[1] /\ p[2] < r[2])

\* the value the claim gives a pattern for the trimmed, lower-cased query
\* q: 1.0 for equality, 0.8 for containment in either direction, else
\* 0.6 * |common words| / max(|query words|, |pattern words|)
PatternValue(q, pattern) ==
    IF q = pattern THEN <<1, 1>>
    ELSE IF Contains(pattern, q) \/ Contains(q, pattern) THEN <<4, 5>>
    ELSE <<3 * Cardinality(WordSet(q) \cap WordSet(pattern)),
           5 * Max2(1, Max2(Cardinality(WordSet(q)),
                            Cardinality(WordSet(pattern))))>>

\* the largest of a set of values
Largest(values) == CHOOSE v \in values : \A w \in values : ~FracLess(v, w)

\* the maximum of the values of the patterns of an intent, 0 without patterns
IntentValue(q, intent) ==
    CHOOSE v \in {Largest(values) :
                    values \in {{PatternValue(q, Lower(intent.patterns[n])) :
                                    n \in 1..Len(intent.patterns)}
                                \cup {<<0, 1>>}}} : TRUE

\* every place with the value of its intent
ValuedPlaces(q) == {<<p, IntentValue(q, PlacedIntent(p))>> : p \in Places}

\* the valued places whose value is the maximum
BestPlaces(valued) ==
    {b \in valued : \A v \in valued : ~FracLess(b[2], v[2])}

\* the first of the best places, with its value; no place has value 0
FirstBestPlace(valued) ==
    IF valued = {} THEN <<<<0, 0>>, <<0, 1>>>>
    ELSE CHOOSE f \in {CHOOSE b \in best :
                            \A v \in best : b = v \/ Earlier(b[1], v[1]) :
                        best \in {BestPlaces(valued)}} : TRUE

\* the place of the intent find_matching_intent returned
ReturnedPlace ==
    CHOOSE p \in Places : intents[p[1]][1] = ret.category /\ p[2] = ret.index

\* the places of the intents with a pattern equal to the query q
ExactPlaces(q) ==
    {p \in Places : \E n \in 1..Len(PlacedIntent(p).patterns) :
                        q = Lower(PlacedIntent(p).patterns[n])}

\* C6: when the trimmed, lower-cased query equals the lower-cased text of a
\* pattern of a loaded intent, find_matching_intent returns an intent that
\* has such a pattern, with score exactly 1.0, wherever the intent and the
\* pattern stand.
C6_ExactPatternScoresOne ==
    op = "find_matching_intent" =>
        \A exact \in {ExactPlaces(Strip(Lower(query)))} :
            exact # {} =>
                /\ ret.found
                /\ ret.score = ScoreExact
                /\ ReturnedPlace \in exact

\* an exact match was returned although an intent that contains the query
\* without being equal to it comes earlier
C6_Witness ==
    /\ op = "find_matching_intent"
    /\ ret.found
    /\ \E q \in {Strip(Lower(query))} :
        \E exact \in {ExactPlaces(q)} :
            /\ exact # {}
            /\ \E p \in Places \ exact :
                /\ Earlier(p, ReturnedPlace)
                /\ IntentValue(q, PlacedIntent(p)) = ScoreContained

\* C7: find_matching_intent returns the first intent, in category order and
\* then list order, whose score is the maximum over all intents, when that
\* maximum is at least 0.6; otherwise it reports no match, and get_response
\* answers matched false with confidence 0.
C7_FirstOfTheBestWins ==
    op \in {"find_matching_intent", "get_response"} =>
        \A first \in {FirstBestPlace(valued) :
                        valued \in {ValuedPlaces(Strip(Lower(query)))}} :
            /\ op = "find_matching_intent" =>
                    IF ~FracLess(first[2], <<3, 5>>)
                    THEN /\ ret.found
                         /\ ReturnedPlace = first[1]
                         /\ FracEq(ret.score, first[2])
                    ELSE ret = NoMatch
            /\ op = "get_response" =>
                    /\ ~raised
                    /\ IF ~FracLess(first[2], <<3, 5>>)
                       THEN /\ ret.matched
                            /\ ret.category = intents[first[1][1]][1]
                            /\ ret.intent = PlacedIntent(first[1]).tag
                            /\ FracEq(ret.confidence, first[2])
                       ELSE ~ret.matched /\ FracEq(ret.confidence, ScoreZero)

\* two intents share the maximum score, which is at least 0.6, and the
\* first of them was returned
C7_Witness ==
    /\ op = "find_matching_intent"
    /\ ret.found
    /\ \E valued \in {ValuedPlaces(Strip(Lower(query)))} :
        /\ Cardinality(BestPlaces(valued)) >= 2
        /\ ReturnedPlace = FirstBestPlace(valued)[1]

(***************************************************************************)
(* SpecReload: one thread in reload_intents and one thread in              *)
(* find_matching_intent on the same JSONIntentLoader.  A thread switch may *)
(* come between any two statements, so reload_intents is taken statement   *)
(* by statement and the matcher's loop iteration by iteration.             *)
(***************************************************************************)
HelpOnly ==
    [EmptyDirectory EXCEPT
        !.help = FileOf(<<Intent("pump_help", <<"pump">>,
                                 <<"The pump is on the control panel.">>)>>)]

HelpAndContact ==
    [HelpOnly EXCEPT
        !.contact = FileOf(<<Intent("pump_service", <<"pump on">>,
                                    <<"Call support to switch the pump on.">>)>>)]

\* the directories the loader was constructed from and reloads from
ReloadFiles == {NoDirectory, HelpOnly, HelpAndContact}

ReloadQueries == {"pump on", "valve"}

InitReload ==
    /\ op = "none"
    /\ query \in ReloadQueries
    /\ user_id = NoneValue
    /\ ret = NoneValue
    /\ raised = FALSE
    /\ conversation_history = <<>>
    /\ files \in ReloadFiles
    /\ \E constructed_from \in ReloadFiles :
        intents = load_all_intents(<<>>, constructed_from)
    /\ logged = None
    /\ requested_limit = DefaultLimit
    /\ reloader = NoReloader
    /\ matcher = NoMatcher
    /\ overwritten = {}
    /\ cache = <<>>
    /\ db = <<>>
    /\ request = <<>>
    /\ session = <<>>
    /\ threads = <<>>
    /\ clock = 0
    /\ events = <<>>

\* a matcher that iterates over the dict object self.intents named until
\* now goes on with that object, which nobody changes any more
Detached(m) == IF m.pc = "iterating" THEN [m EXCEPT !.live = FALSE] ELSE m

\* a matcher that iterates over the dict object self.intents names sees
\* what is stored into it
Sharing(m, d) ==
    IF m.pc = "iterating" /\ m.live THEN [m EXCEPT !.dict = d] ELSE m

\* reload_intents: self.intents = {}
ReloadClear ==
    /\ reloader.pc = "idle"
    /\ intents' = <<>>
    /\ reloader' = [pc |-> "load_all_intents", k |-> 0, before |-> intents]
    /\ matcher' = Detached(matcher)
    /\ UNCHANGED <<op, query, user_id, ret, raised, conversation_history,
                   files, logged, requested_limit,
                   overwritten,
                   cache,
                   db,
                   request,
                   session,
                   threads,
                   clock,
                   events>>

\* reload_intents: the next statement of self.load_all_intents(), the test
\* of the directory (k = 0) or the body of the loop for category k
ReloadLoad ==
    /\ reloader.pc = "load_all_intents"
    /\ intents' = IF reloader.k = 0 THEN intents
                  ELSE LoadCategory(intents, files,
                                    json_files[reloader.k]).intents
    /\ reloader' = IF (reloader.k = 0 /\ ~files.dir_exists)
                      \/ reloader.k = Len(json_files)
                   THEN [reloader EXCEPT !.pc = "done"]
                   ELSE [reloader EXCEPT !.k = @ + 1]
    /\ matcher' = Sharing(matcher, intents')
    /\ UNCHANGED <<op, query, user_id, ret, raised, conversation_history,
                   files, logged, requested_limit,
                   overwritten,
                   cache,
                   db,
                   request,
                   session,
                   threads,
                   clock,
                   events>>

\* find_matching_intent: the statements before the loop and the iterator of
\* self.intents.items(), which remembers the size of the dict
MatcherStart ==
    /\ matcher.pc = "idle"
    /\ matcher' = [pc |-> "iterating", dict |-> intents, live |-> TRUE,
                   size |-> Len(intents), c |-> 0, best |-> NoMatch,
                   raised |-> FALSE]
    /\ UNCHANGED <<op, query, user_id, ret, raised, conversation_history,
                   files, intents, logged, requested_limit, reloader,
                   overwritten,
                   cache,
                   db,
                   request,
                   session,
                   threads,
                   clock,
                   events>>

\* find_matching_intent: the next item of the iterator, which raises
\* RuntimeError when the dict changed size, and the loop body for it; the
\* return after the last item
MatcherNext ==
    /\ matcher.pc = "iterating"
    /\ matcher' =
        IF Len(matcher.dict) # matcher.size
        THEN [matcher EXCEPT !.pc = "done", !.raised = TRUE]
        ELSE IF matcher.c = Len(matcher.dict)
        THEN [matcher EXCEPT !.pc = "done"]
        ELSE [matcher EXCEPT
                !.c = @ + 1,
                !.best = ScanIntents(matcher.best, Strip(Lower(query)),
                                     matcher.dict[matcher.c + 1][1],
                                     matcher.dict[matcher.c + 1][2].intents,
                                     1, Threshold)]
    /\ UNCHANGED <<op, query, user_id, ret, raised, conversation_history,
                   files, intents, logged, requested_limit, reloader,
                   overwritten,
                   cache,
                   db,
                   request,
                   session,
                   threads,
                   clock,
                   events>>

NextReload == ReloadClear \/ ReloadLoad \/ MatcherStart \/ MatcherNext

SpecReload == InitReload /\ [][NextReload]_vars

\* the complete intent set before the reload and the complete set after it
SetBeforeReload == IF reloader.pc = "idle" THEN intents ELSE reloader.before

SetAfterReload == load_all_intents(<<>>, files)

\* C4: a find_matching_intent call that runs concurrently with
\* reload_intents returns, and what it returns is the result for the
\* complete intent set before the reload or for the complete set after it.
C4_ReloadIsAtomic ==
    matcher.pc = "done" =>
        /\ ~matcher.raised
        /\ matcher.best \in
            {find_matching_intent(SetBeforeReload, query, Threshold),
             find_matching_intent(SetAfterReload, query, Threshold)}

(***************************************************************************)
(* SpecFiles: load_all_intents on the empty dict of a new or reloading     *)
(* loader, for every combination of missing, malformed and well-formed     *)
(* intent files.                                                           *)
(***************************************************************************)
\* the file of a category: absent, not parseable, or one intent
FileStates(category) ==
    {Missing, Malformed,
     FileOf(<<Intent(category \o "_intent", <<category>>,
                     <<"See the " \o category \o " page.">>)>>)}

FileDirectories ==
    {NoDirectory} \cup
    {[dir_exists |-> TRUE, help |-> h, contact |-> c, privacy |-> p,
      terms |-> t, system |-> s] :
        h \in FileStates("help"), c \in FileStates("contact"),
        p \in FileStates("privacy"), t \in FileStates("terms"),
        s \in FileStates("system")}

\* self.intents = {} of __init__ and of reload_intents has been executed
InitFiles ==
    /\ op = "none"
    /\ query = ""
    /\ user_id = NoneValue
    /\ ret = NoneValue
    /\ raised = FALSE
    /\ conversation_history = <<>>
    /\ files \in FileDirectories
    /\ intents = <<>>
    /\ logged = None
    /\ requested_limit = DefaultLimit
    /\ reloader = NoReloader
    /\ matcher = NoMatcher
    /\ overwritten = {}
    /\ cache = <<>>
    /\ db = <<>>
    /\ request = <<>>
    /\ session = <<>>
    /\ threads = <<>>
    /\ clock = 0
    /\ events = <<>>

\* self.load_all_intents()
LoadAllIntents ==
    /\ op = "none"
    /\ \E result \in {LoadAll(intents, files)} :
        /\ raised' = result.raised
        /\ intents' = result.intents
    /\ op' = "load_all_intents"
    /\ UNCHANGED <<query, user_id, ret, conversation_history, files, logged,
                   requested_limit, reloader, matcher,
                   overwritten,
                   cache,
                   db,
                   request,
                   session,
                   threads,
                   clock,
                   events>>

NextFiles == LoadAllIntents

SpecFiles == InitFiles /\ [][NextFiles]_vars

\* the intents the dict holds for a category, none when it has no entry
LoadedIntents(category) ==
    IF \E c \in 1..Len(intents) : intents[c][1] = category
    THEN intents[CHOOSE c \in 1..Len(intents) : intents[c][1] = category][2].intents
    ELSE <<>>

\* C14: load_all_intents raises nothing, every category whose file exists
\* and parses holds the intents of its file, and every other category
\* holds no intent, whatever the state of the files before and after it in
\* the file list.
C14_FilesLoadIndependently ==
    op = "load_all_intents" =>
        /\ ~raised
        /\ \A k \in 1..Len(json_files) :
            LoadedIntents(json_files[k]) =
                IF files.dir_exists /\ files[json_files[k]].state = "ok"
                THEN files[json_files[k]].intents
                ELSE <<>>

\* a malformed file and a missing file come before a file that was loaded
C14_Witness ==
    /\ op = "load_all_intents"
    /\ files.help.state = "malformed"
    /\ files.contact.state = "missing"
    /\ files.privacy.state = "ok"
    /\ LoadedIntents("privacy") # <<>>
    /\ LoadedIntents("help") = <<>>

(***************************************************************************)
(* SpecKnowledge: the calls that match a query, one after the other, on a  *)
(* guide whose intents were loaded at construction.                        *)
(***************************************************************************)
NextKnowledge ==
    GetHelpResponse \/ GetResponse \/ FindBestMatch \/ GetSuggestions \/ NextCall

SpecKnowledge == InitHelp /\ [][NextKnowledge]_vars

\* C15: matching never mutates the knowledge base: after every sequence of
\* calls of get_help_response, find_best_match, get_suggestions and
\* JSONIntentLoader.get_response no item of a dict of the resources was
\* assigned to, and the loaded intents are the ones load_all_intents loaded,
\* whether the calls matched, did not match or ended in the error payload.
C15_KnowledgeBaseUnchanged ==
    /\ overwritten = {}
    /\ cache = <<>>
    /\ db = <<>>
    /\ request = <<>>
    /\ session = <<>>
    /\ threads = <<>>
    /\ clock = 0
    /\ events = <<>>
    /\ intents = load_all_intents(<<>>, files)

\* a call returned the contact response after it had assigned the spelling
\* correction to it
C15_Witness ==
    /\ op = "get_help_response"
    /\ ret.matched
    /\ ret.type = "contact"
    /\ "spelling_correction" \in DOMAIN ret
    /\ overwritten = {}
    /\ cache = <<>>
    /\ db = <<>>
    /\ request = <<>>
    /\ session = <<>>
    /\ threads = <<>>
    /\ clock = 0
    /\ events = <<>>

(***************************************************************************)
(* irrigation/api.py: the control and schedule views of one authenticated  *)
(* user.  The cache keys carry the user's id in the code; the model keeps  *)
(* the keys of that one user and names them without the id.                *)
(***************************************************************************)
DEFAULT_THRESHOLD == 30

\* the number of Schedule rows the database ever creates for the user
MaxSchedules == 2

\* cache.get(key, default)
CacheGet(c, key, default) == IF key \in DOMAIN c THEN c[key] ELSE default

\* cache.set(key, value, timeout=None)
CacheSet(c, key, value) ==
    [k \in DOMAIN c \cup {key} |-> IF k = key THEN value ELSE c[k]]

\* rest_framework Response(data, status=status)
Response(data, status) == [status |-> status, data |-> data]

\* what a view leaves behind: the cache, the database and its response
Handled(c, d, response) == [cache |-> c, db |-> d, response |-> response]

\* Model.objects.create(...) on a table whose older rows no modelled view
\* reads: the table is kept as its most recent row
CreateRow(d, model, row) == [d EXCEPT ![model] = {row}]

\* ControlCommand.objects.create(pump_status, manual_mode, emergency, user)
CreateControlCommand(d, pump, manual, emergency) ==
    CreateRow(d, "ControlCommand",
        [pump_status |-> pump, manual_mode |-> manual, emergency |-> emergency])

\* config = SystemConfiguration.get_for_user(user);
\* config.emergency_stop = value; config.save()
SaveEmergencyStop(d, value) ==
    CreateRow(d, "SystemConfiguration", [emergency_stop |-> value])

\* action == 'toggle_pump'
toggle_pump(c, d, data) ==
    IF ~CacheGet(c, "system_mode", FALSE)
    THEN Handled(c, d,
        Response([error |-> "System must be in manual mode to control pump"],
                 403))
    ELSE LET current_pump_state == CacheGet(c, "pump_state", "off")
             requested_state == IF "state" \in DOMAIN data THEN data.state
                                ELSE FALSE
             requested_state_str == IF requested_state THEN "on" ELSE "off"
         IN  IF current_pump_state = requested_state_str
             THEN Handled(c, d, Response([pump |-> current_pump_state], 200))
             ELSE Handled(CacheSet(c, "pump_state", requested_state_str),
                          CreateControlCommand(d, requested_state, FALSE, FALSE),
                          Response([pump |-> requested_state_str], 200))

\* action == 'set_threshold'
set_threshold(c, d, data) ==
    LET threshold == IF "threshold" \in DOMAIN data THEN data.threshold
                     ELSE NoneValue
    IN  IF threshold = NoneValue
        THEN Handled(c, d, Response([error |-> "Threshold value required"], 400))
        ELSE IF threshold.type # "int"
        THEN Handled(c, d, Response([error |-> "invalid literal for int()"], 400))
        ELSE IF ~(0 <= threshold.int /\ threshold.int <= 100)
        THEN Handled(c, d,
            Response([error |-> "Threshold must be between 0 and 100"], 400))
        ELSE Handled(CacheSet(c, "threshold", threshold.int),
                     CreateRow(d, "Threshold", [threshold |-> threshold.int]),
                     Response([threshold |-> threshold.int], 200))

\* set_mode without "if not manual_mode: pump_state = False; cache.set(...)":
\* the switch to automatic mode leaves the pump as it is
set_mode_keeping_pump(c, d, data) ==
    LET manual_mode == IF "manual_mode" \in DOMAIN data THEN data.manual_mode
                       ELSE FALSE
        c1 == CacheSet(c, "system_mode", manual_mode)
        pump_state == CacheGet(c1, "pump_state", "off") = "on"
    IN  Handled(c1,
                CreateControlCommand(d, pump_state, manual_mode,
                                     CacheGet(c1, "emergency", FALSE)),
                Response([manual_mode |-> manual_mode,
                          pump |-> IF pump_state THEN "on" ELSE "off"], 200))

\* action == 'set_mode'
set_mode(c, d, data) ==
    LET manual_mode == IF "manual_mode" \in DOMAIN data THEN data.manual_mode
                       ELSE FALSE
        c1 == CacheSet(c, "system_mode", manual_mode)
        emergency_state == CacheGet(c1, "emergency", FALSE)
        pump_state == IF manual_mode
                      THEN CacheGet(c1, "pump_state", "off") = "on"
                      ELSE FALSE
        c2 == IF manual_mode THEN c1 ELSE CacheSet(c1, "pump_state", "off")
    IN  Handled(c2,
                CreateControlCommand(d, pump_state, manual_mode, emergency_state),
                Response([manual_mode |-> manual_mode,
                          pump |-> IF ~manual_mode THEN "off"
                                   ELSE IF pump_state THEN "on" ELSE "off"],
                         200))

\* action == 'emergency_stop'
emergency_stop(c, d, data) ==
    Handled(CacheSet(CacheSet(c, "emergency", TRUE), "pump_state", "off"),
            CreateControlCommand(SaveEmergencyStop(d, TRUE), FALSE, FALSE, TRUE),
            Response([emergency |-> TRUE, pump |-> "off"], 200))

\* action == 'reset_emergency'
reset_emergency(c, d, data) ==
    LET current_emergency == CacheGet(c, "emergency", FALSE)
        c1 == CacheSet(c, "emergency", FALSE)
        d1 == SaveEmergencyStop(d, FALSE)
        pump_state == CacheGet(c1, "pump_state", "off") = "on"
        manual_mode == CacheGet(c1, "system_mode", FALSE)
    IN  IF ~current_emergency
        THEN Handled(c1, d1,
            Response([status |-> "no_active_emergency",
                      emergency |-> FALSE,
                      system_active |-> CacheGet(c1, "system_active", FALSE),
                      pump |-> CacheGet(c1, "pump_state", "off")], 200))
        ELSE Handled(c1,
            CreateControlCommand(d1, pump_state, manual_mode, FALSE),
            Response([status |-> "emergency_reset",
                      emergency |-> FALSE,
                      system_active |-> CacheGet(c1, "system_active", FALSE),
                      pump |-> CacheGet(c1, "pump_state", "off")], 200))

\* timezone.now(): the requests of one behaviour are made at one instant,
\* and a datetime is the number of days it lies after that instant
Now == 0

\* Schedule.objects.filter(user=user, is_active=True,
\*     scheduled_time__gte=timezone.now()).order_by('scheduled_time'): the
\* rows that may come first (the database orders equal times as it likes)
NextSchedules(d) ==
    {s \in d.Schedule :
        /\ s.is_active
        /\ s.scheduled_time >= Now
        /\ \A t \in d.Schedule :
            (t.is_active /\ t.scheduled_time >= Now)
                => s.scheduled_time <= t.scheduled_time}

\* action == 'get_state', with next_schedule the row .first() returned (a
\* member of NextSchedules, NoneValue when there is none)
get_state(c, d, next_schedule) ==
    LET manual_mode == CacheGet(c, "system_mode", FALSE)
        emergency == CacheGet(c, "emergency", FALSE)
        pump == CacheGet(c, "pump_state", "off")
        response_data ==
            [pump |-> pump,
             manual_mode |-> manual_mode,
             emergency |-> emergency,
             threshold |-> CacheGet(c, "threshold", DEFAULT_THRESHOLD),
             irrigation_active |->
                 IF manual_mode /\ ~emergency THEN pump = "on" ELSE FALSE,
             connected |-> CacheGet(c, "device_connection", FALSE)]
    IN  Handled(c, d, Response(
            IF next_schedule = NoneValue THEN response_data
            ELSE [schedule |-> [time |-> next_schedule.scheduled_time,
                                duration |-> next_schedule.duration]]
                 @@ response_data,
            200))

\* control_system(request) for the actions that read or write the pump,
\* the mode, the threshold and the emergency flag
control_system(c, d, data, next_schedule) ==
    CASE data.action = "toggle_pump"     -> toggle_pump(c, d, data)
      [] data.action = "set_threshold"   -> set_threshold(c, d, data)
      [] data.action = "set_mode"        -> set_mode(c, d, data)
      [] data.action = "emergency_stop"  -> emergency_stop(c, d, data)
      [] data.action = "reset_emergency" -> reset_emergency(c, d, data)
      [] data.action = "get_state"       -> get_state(c, d, next_schedule)
      [] OTHER -> Handled(c, d, Response([error |-> "Invalid action"], 400))

(***************************************************************************)
(* smart_irrigation/urls.py and the schedule views                         *)
(***************************************************************************)
\* datetime.fromisoformat(text.replace('Z', '+00:00')) for the texts the
\* requests carry; None stands for the ValueError
fromisoformat(text) ==
    CASE text = "2020-01-01T06:00:00Z" -> IntValue(0 - 1)
      [] text = "2099-01-01T06:00:00Z" -> IntValue(1)
      [] OTHER -> NoneValue

\* urlpatterns, the routes under api/schedule/ in the order of the list
urlpatterns ==
    << [route |-> "api/schedule/",          view |-> "schedule_irrigation"],
       [route |-> "api/schedule/",          view |-> "schedule_list"],
       [route |-> "api/schedule/<int:pk>/", view |-> "schedule_detail"] >>

\* django.urls resolve(): the first pattern whose route matches
ResolveFrom(k, route) ==
    CHOOSE i \in k..Len(urlpatterns) :
        /\ urlpatterns[i].route = route
        /\ \A j \in k..(i - 1) : urlpatterns[j].route # route

Resolve(route) == urlpatterns[ResolveFrom(1, route)].view

\* @api_view([...]) of each view
api_view ==
    [schedule_irrigation |-> {"GET", "POST", "PUT", "DELETE"},
     schedule_list       |-> {"GET", "POST"},
     schedule_detail     |-> {"GET", "PUT", "DELETE"}]

\* the rows of a queryset as the list views return them
ScheduleList(d) == d.Schedule

\* Schedule.objects.create(user, scheduled_time, duration)
CreateSchedule(d, scheduled_time, duration) ==
    [d EXCEPT !.Schedule = @ \cup {[id |-> d.schedule_id + 1,
                                     scheduled_time |-> scheduled_time,
                                     duration |-> duration,
                                     is_active |-> TRUE]},
              !.schedule_id = @ + 1]

\* schedule.save() of a row read before
SaveSchedule(d, schedule) ==
    [d EXCEPT !.Schedule = {s \in @ : s.id # schedule.id} \cup {schedule}]

\* schedule.delete()
DeleteSchedule(d, schedule) ==
    [d EXCEPT !.Schedule = {s \in @ : s.id # schedule.id}]

\* "if not system_mode or emergency"
SchedulingForbidden(c) ==
    ~CacheGet(c, "system_mode", FALSE) \/ CacheGet(c, "emergency", FALSE)

\* schedule_irrigation(request), routed without a schedule_id
schedule_irrigation(c, d, method, data) ==
    IF method \in {"POST", "PUT", "DELETE"} /\ SchedulingForbidden(c)
    THEN Handled(c, d, Response(
        [error |-> "Scheduling is only available in manual mode when no emergency is active"],
        403))
    ELSE IF method = "GET"
    THEN Handled(c, d, Response(ScheduleList(d), 200))
    ELSE IF method = "POST"
    THEN LET duration == IF "duration" \in DOMAIN data THEN data.duration
                         ELSE 15
             scheduled_time ==
                 IF "scheduled_time" \in DOMAIN data
                 THEN fromisoformat(data.scheduled_time) ELSE NoneValue
         IN  IF "scheduled_time" \notin DOMAIN data
             THEN Handled(c, d,
                 Response([error |-> "Scheduled time is required"], 400))
             ELSE IF scheduled_time = NoneValue
             THEN Handled(c, d,
                 Response([error |-> "Invalid datetime format"], 400))
             ELSE IF scheduled_time.int < Now
             THEN Handled(c, d,
                 Response([error |-> "Scheduled time must be in the future"],
                          400))
             ELSE Handled(c, CreateSchedule(d, scheduled_time.int, duration),
                 Response([id |-> d.schedule_id + 1,
                           scheduled_time |-> scheduled_time.int,
                           duration |-> duration], 201))
    ELSE Handled(c, d, Response([error |-> "Invalid request"], 400))

\* schedule_list(request)
schedule_list(c, d, method, data) ==
    IF method = "GET"
    THEN Handled(c, d, Response(ScheduleList(d), 200))
    ELSE LET scheduled_time ==
                 IF "scheduled_time" \in DOMAIN data
                 THEN fromisoformat(data.scheduled_time) ELSE NoneValue
         IN  IF "scheduled_time" \notin DOMAIN data
                \/ "duration" \notin DOMAIN data
                \/ data.duration = 0
             THEN Handled(c, d, Response(
                 [error |-> "Scheduled time and duration are required"], 400))
             ELSE IF scheduled_time = NoneValue
             THEN Handled(c, d,
                 Response([error |-> "Invalid datetime format"], 400))
             ELSE IF scheduled_time.int < Now
             THEN Handled(c, d,
                 Response([error |-> "Scheduled time must be in the future"],
                          400))
             ELSE Handled(c,
                 CreateSchedule(d, scheduled_time.int, data.duration),
                 Response([id |-> d.schedule_id + 1,
                           scheduled_time |-> scheduled_time.int,
                           duration |-> data.duration], 201))

\* schedule_detail(request, pk)
schedule_detail(c, d, method, pk, data) ==
    IF \A s \in d.Schedule : s.id # pk
    THEN Handled(c, d, Response([detail |-> "Not found."], 404))
    ELSE LET schedule == CHOOSE s \in d.Schedule : s.id = pk
             scheduled_time ==
                 IF "scheduled_time" \in DOMAIN data
                 THEN fromisoformat(data.scheduled_time) ELSE NoneValue
             timed == IF "scheduled_time" \in DOMAIN data
                      THEN [schedule EXCEPT
                               !.scheduled_time = scheduled_time.int]
                      ELSE schedule
             updated == IF "duration" \in DOMAIN data
                        THEN [timed EXCEPT !.duration = data.duration]
                        ELSE timed
         IN  IF method = "GET"
             THEN Handled(c, d, Response(schedule, 200))
             ELSE IF method = "DELETE"
             THEN Handled(c, DeleteSchedule(d, schedule),
                          Response([status |-> "success"], 200))
             ELSE IF "scheduled_time" \in DOMAIN data
                     /\ scheduled_time = NoneValue
             THEN Handled(c, d,
                 Response([error |-> "Invalid datetime format"], 400))
             ELSE IF "scheduled_time" \in DOMAIN data
                     /\ scheduled_time.int < Now
             THEN Handled(c, d,
                 Response([error |-> "Scheduled time must be in the future"],
                          400))
             ELSE IF "duration" \in DOMAIN data /\ data.duration = 0
             THEN Handled(c, d,
                 Response([error |-> "Duration cannot be empty"], 400))
             ELSE Handled(c, SaveSchedule(d, updated),
                 Response([id |-> updated.id,
                           scheduled_time |-> updated.scheduled_time,
                           duration |-> updated.duration], 200))

\* the dispatch of a request on a route under api/schedule/: the resolved
\* view, or 405 when its @api_view does not list the method
Dispatch(c, d, route, method, pk, data) ==
    LET view == Resolve(route)
    IN  IF method \notin api_view[view]
        THEN Handled(c, d, Response([detail |-> "Method not allowed."], 405))
        ELSE CASE view = "schedule_irrigation" ->
                      schedule_irrigation(c, d, method, data)
               [] view = "schedule_list" -> schedule_list(c, d, method, data)
               [] view = "schedule_detail" ->
                      schedule_detail(c, d, method, pk, data)

(***************************************************************************)
(* SpecControl: requests of one user to api/control/, api/schedule/ and    *)
(* api/schedule/<pk>/, one after the other, from an empty cache and an     *)
(* empty database.                                                         *)
(***************************************************************************)
Methods == {"GET", "POST", "PUT", "DELETE"}

TimeTexts == {"tomorrow", "2020-01-01T06:00:00Z", "2099-01-01T06:00:00Z"}

\* request.data of the schedule requests: each key present or not
ScheduleData ==
    {<<>>}
    \cup {[scheduled_time |-> t] : t \in TimeTexts}
    \cup {[duration |-> n] : n \in {0, 45}}

ThresholdData ==
    {NoneValue, IntValue(40), IntValue(101), StrValue("wet")}

InitControl ==
    /\ op = "none"
    /\ query = ""
    /\ user_id = NoneValue
    /\ ret = NoneValue
    /\ raised = FALSE
    /\ conversation_history = <<>>
    /\ files = <<>>
    /\ intents = <<>>
    /\ logged = None
    /\ requested_limit = DefaultLimit
    /\ reloader = NoReloader
    /\ matcher = NoMatcher
    /\ overwritten = {}
    /\ cache = <<>>
    /\ db = [ControlCommand |-> {}, Threshold |-> {},
             SystemConfiguration |-> {}, Schedule |-> {}, schedule_id |-> 0]
    /\ request = <<>>
    /\ session = <<>>
    /\ threads = <<>>
    /\ clock = 0
    /\ events = <<>>

\* the variables that no view of irrigation/api.py touches
GuideUnchanged ==
    UNCHANGED <<query, user_id, raised, conversation_history, files,
                   intents, logged, requested_limit, reloader, matcher,
                   overwritten,
                   session,
                   threads,
                   clock,
                   events>>

\* a POST to api/control/ with the given data
ControlRequest(data, next_schedule) ==
    /\ \E result \in {control_system(cache, db, data, next_schedule)} :
        /\ cache' = result.cache
        /\ db' = result.db
        /\ ret' = result.response
    /\ op' = "control_system"
    /\ request' = [method |-> "POST", route |-> "api/control/", data |-> data]

TogglePump ==
    /\ \E state \in BOOLEAN :
        ControlRequest([action |-> "toggle_pump", state |-> state], NoneValue)
    /\ GuideUnchanged

SetThreshold ==
    /\ \E threshold \in ThresholdData :
        ControlRequest([action |-> "set_threshold", threshold |-> threshold],
                       NoneValue)
    /\ GuideUnchanged

SetMode ==
    /\ \E manual_mode \in BOOLEAN :
        ControlRequest([action |-> "set_mode", manual_mode |-> manual_mode],
                       NoneValue)
    /\ GuideUnchanged

EmergencyStop ==
    /\ ControlRequest([action |-> "emergency_stop"], NoneValue)
    /\ GuideUnchanged

ResetEmergency ==
    /\ ControlRequest([action |-> "reset_emergency"], NoneValue)
    /\ GuideUnchanged

GetState ==
    /\ \E next_schedule \in
            IF NextSchedules(db) = {} THEN {NoneValue} ELSE NextSchedules(db) :
        ControlRequest([action |-> "get_state"], next_schedule)
    /\ GuideUnchanged

\* a request on a route under api/schedule/
ScheduleRequest(route, method, pk, data) ==
    /\ \E result \in {Dispatch(cache, db, route, method, pk, data)} :
        /\ result.db.schedule_id <= MaxSchedules
        /\ cache' = result.cache
        /\ db' = result.db
        /\ ret' = result.response
    /\ op' = Resolve(route)
    /\ request' = [method |-> method, route |-> route, pk |-> pk,
                   data |-> data]

\* GET, POST, PUT or DELETE on api/schedule/
RequestSchedule ==
    /\ \E method \in Methods, data \in ScheduleData :
        ScheduleRequest("api/schedule/", method, NoneValue, data)
    /\ GuideUnchanged

\* GET, POST, PUT or DELETE on api/schedule/<pk>/
RequestScheduleDetail ==
    /\ \E method \in Methods, pk \in 1..MaxSchedules, data \in ScheduleData :
        ScheduleRequest("api/schedule/<int:pk>/", method, pk, data)
    /\ GuideUnchanged

NextControl ==
    \/ TogglePump
    \/ SetThreshold
    \/ SetMode
    \/ EmergencyStop
    \/ ResetEmergency
    \/ GetState
    \/ RequestSchedule
    \/ RequestScheduleDetail

SpecControl == InitControl /\ [][NextControl]_vars

\* C16: while the user's emergency flag is set, the cached pump state is
\* 'off', after every sequence of control_system actions.
C16_PumpOffDuringEmergency ==
    CacheGet(cache, "emergency", FALSE) =>
        CacheGet(cache, "pump_state", "off") = "off"

\* a request that asks for a schedule to be created, updated or deleted: its
\* method is one the resolved view accepts, and on api/schedule/<pk>/ the pk
\* is the id of a schedule of the user's among the rows d
WritingRequest(r, d) ==
    /\ r.route \in {"api/schedule/", "api/schedule/<int:pk>/"}
    /\ r.method \in api_view[Resolve(r.route)] \cap {"POST", "PUT", "DELETE"}
    /\ r.route = "api/schedule/<int:pk>/" => \E s \in d : s.id = r.pk

\* C17: every POST, PUT or DELETE on a schedule route that is made while
\* the system is in automatic mode or has an active emergency is answered
\* 403 and leaves the user's schedules as they were.
C17_NoScheduleWriteOutsideManual ==
    [][(/\ op' \in {"schedule_irrigation", "schedule_list", "schedule_detail"}
        /\ WritingRequest(request', db.Schedule)
        /\ SchedulingForbidden(cache))
       => (ret'.status = 403 /\ db'.Schedule = db.Schedule)]_vars

(***************************************************************************)
(* SpecPump: requests of one user to api/control/ only, one after the      *)
(* other, from an empty cache and an empty database.                       *)
(***************************************************************************)
NextPump ==
    \/ TogglePump
    \/ SetThreshold
    \/ SetMode
    \/ EmergencyStop
    \/ ResetEmergency
    \/ GetState

SpecPump == InitControl /\ [][NextPump]_vars

\* the request the view has just answered is the given control_system action
Answered(action) ==
    op' = "control_system" /\ request'.data.action = action

\* C21: after every control_system action the cached pump state is 'on'
\* only if the cached system mode is manual; toggle_pump in automatic mode
\* is answered 403, changes no cached state and creates no ControlCommand;
\* set_mode to automatic leaves the cached pump state 'off'.
C21_PumpOnOnlyInManualMode ==
    [][/\ CacheGet(cache', "pump_state", "off") = "on"
            => CacheGet(cache', "system_mode", FALSE)
       /\ (Answered("toggle_pump") /\ ~CacheGet(cache, "system_mode", FALSE))
            => /\ ret'.status = 403
               /\ cache' = cache
               /\ db'.ControlCommand = db.ControlCommand
       /\ (Answered("set_mode") /\ ~request'.data.manual_mode)
            => /\ CacheGet(cache', "pump_state", "") = "off"
               /\ ~CacheGet(cache', "system_mode", TRUE)]_vars

\* the pump was switched on by toggle_pump in manual mode
C21_Witness ==
    /\ op = "control_system"
    /\ request.data.action = "toggle_pump"
    /\ ret.status = 200
    /\ CacheGet(cache, "pump_state", "off") = "on"
    /\ CacheGet(cache, "system_mode", FALSE)
    /\ db.ControlCommand = {[pump_status |-> TRUE, manual_mode |-> FALSE,
                             emergency |-> FALSE]}

(***************************************************************************)
(* accounts/views.py and irrigation/sms.py: the password reset by SMS.     *)
(* db.CustomUser maps a user's id to the row of the user; session is the   *)
(* session of one browser.                                                 *)
(***************************************************************************)
ExpiryMinutes == 10
MaxAttempts == 3
CodeLength == 6

\* the number of codes the views ever issue to one user
MaxIssues == 2
\* the number of submitted codes that are ever compared with a stored code,
\* in SpecVerify and in SpecReset
MaxSubmissions == 4
MaxResetSubmissions == 3
\* the number of requests to password_reset_sms_verify served at a time
MaxInFlight == 2
\* the last minute of the clock
MaxClock == 20

Digits == "0123456789"

\* c.isdigit() for a one-character string
IsDigit(c) == \E i \in 1..Len(Digits) : CharAt(Digits, i) = c

\* str.isdigit()
IsDigitString(s) == Len(s) > 0 /\ \A i \in 1..Len(s) : IsDigit(CharAt(s, i))

\* str.startswith(prefix), str.endswith(suffix)
StartsWith(s, prefix) ==
    Len(s) >= Len(prefix) /\ SubSeq(s, 1, Len(prefix)) = prefix

EndsWith(s, suffix) ==
    Len(s) >= Len(suffix)
        /\ SubSeq(s, Len(s) - Len(suffix) + 1, Len(s)) = suffix

\* s[n:]
From(s, n) == SubSeq(s, n + 1, Len(s))

\* str.replace(old, new) for a one-character old
RECURSIVE Replace(_, _, _)
Replace(s, old, new) ==
    IF s = "" THEN ""
    ELSE (IF CharAt(s, 1) = old THEN new ELSE CharAt(s, 1))
             \o Replace(From(s, 1), old, new)

\* ''.join(c for c in phone if c.isdigit() or c == '+')
RECURSIVE KeepDigitsAndPlus(_)
KeepDigitsAndPlus(phone) ==
    IF phone = "" THEN ""
    ELSE (IF IsDigit(CharAt(phone, 1)) \/ CharAt(phone, 1) = "+"
          THEN CharAt(phone, 1) ELSE "")
             \o KeepDigitsAndPlus(From(phone, 1))

\* SMSService.clean_phone_number(phone)
clean_phone_number(phone) ==
    IF phone = None \/ phone = "" THEN None
    ELSE LET cleaned == KeepDigitsAndPlus(phone)
         IN  IF StartsWith(cleaned, "+256") THEN From(cleaned, 1)
             ELSE IF StartsWith(cleaned, "256") THEN cleaned
             ELSE IF StartsWith(cleaned, "0") THEN "256" \o From(cleaned, 1)
             ELSE None

\* possible_formats of find_users_by_phone, without the None and empty ones
PossibleFormats(phone_number) ==
    {fmt \in {phone_number,
              Replace(phone_number, "+", ""),
              Replace(phone_number, "+", "0"),
              IF StartsWith(phone_number, "+256")
              THEN "0" \o From(phone_number, 3) ELSE None} :
        fmt # None /\ fmt # ""}

\* find_users_by_phone(phone_number): the ids of the users of the queryset
find_users_by_phone(users, phone_number) ==
    LET exact == {id \in DOMAIN users :
                     users[id].phone_number \in PossibleFormats(phone_number)}
        local_number ==
            IF StartsWith(phone_number, "+256") THEN From(phone_number, 4)
            ELSE IF StartsWith(phone_number, "256") THEN From(phone_number, 3)
            ELSE phone_number
    IN  IF exact # {} THEN exact
        ELSE IF local_number # phone_number
        THEN {id \in DOMAIN users :
                 /\ users[id].phone_number # None
                 /\ EndsWith(users[id].phone_number, local_number)}
        ELSE {}

\* users.first(): a queryset without ordering is ordered by the primary key
First(ids) == CHOOSE id \in ids : \A other \in ids : id <= other

\* request.session.get(key)
SessionGet(s, key) == IF key \in DOMAIN s THEN s[key] ELSE 0

\* request.session[key] = value
SessionSet(s, key, value) ==
    [k \in DOMAIN s \cup {key} |-> IF k = key THEN value ELSE s[k]]

\* request.session.pop(key, None)
SessionPop(s, key) == [k \in DOMAIN s \ {key} |-> s[k]]

\* redirect(name) and render(request, template, ...) with the message the
\* view added, as the last call's result
Redirect(name, message) == [redirect |-> name, message |-> message]
Render(template, message) == [render |-> template, message |-> message]

\* user.sms_verification_code = code;
\* user.sms_verification_sent_at = timezone.now();
\* user.sms_verification_attempts = 0; user.save()
SaveNewCode(users, id, code, now) ==
    [users EXCEPT ![id] = [@ EXCEPT !.sms_verification_code = code,
                                    !.sms_verification_sent_at = IntValue(now),
                                    !.sms_verification_attempts = 0]]

\* history: a code was issued to the user and an SMS with it was handed to
\* the gateway for a number, after a number was entered (None: none was)
IssuedTo(e, id, entered, number) ==
    [e EXCEPT !.codes[id] = [issue |-> @.issue + 1, failures |-> 0,
                             consumed |-> FALSE],
              !.sms = [to |-> number, user |-> id, entered |-> entered]]

\* the variables of the guide, of the intent loader and of irrigation/api.py,
\* which no view of accounts/views.py touches
AccountsUnchanged ==
    UNCHANGED <<query, user_id, raised, conversation_history, files,
                intents, logged, requested_limit, reloader, matcher,
                overwritten, cache>>

\* password_reset_sms_quick(request): a POST with the phone number entered,
\* the code generate_verification_code() returned and the gateway's answer
PasswordResetSmsQuick(entered, code, success) ==
    /\ \E phone_number \in {Strip(entered)} :
       \E clean_phone \in {clean_phone_number(phone_number)} :
        IF phone_number = ""
        THEN /\ ret' = Render("accounts/password_reset_quick.html",
                              "Please enter a phone number.")
             /\ UNCHANGED <<db, session, events>>
        ELSE IF clean_phone = None
        THEN /\ ret' = Render("accounts/password_reset_quick.html",
                              "Invalid phone number format.")
             /\ UNCHANGED <<db, session, events>>
        ELSE \E users \in {find_users_by_phone(db.CustomUser, clean_phone)} :
            IF users = {}
            THEN /\ ret' = Render("accounts/password_reset_quick.html",
                                  "No account found with phone number")
                 /\ UNCHANGED <<db, session, events>>
            ELSE \E id \in {First(users)} :
                /\ events.codes[id].issue < MaxIssues
                /\ db' = [db EXCEPT
                             !.CustomUser = SaveNewCode(@, id, code, clock)]
                /\ events' = IssuedTo(events, id, entered, clean_phone)
                /\ IF success
                   THEN /\ session' = SessionSet(session,
                                         "sms_verification_user_id", id)
                        /\ ret' = Redirect("password_reset_sms_verify", "")
                   ELSE /\ session' = session
                        /\ ret' = Render("accounts/password_reset_quick.html",
                                         "SMS sending failed")
    /\ op' = "password_reset_sms_quick"
    /\ UNCHANGED <<request, threads, clock>>
    /\ AccountsUnchanged

\* password_reset_sms_resend(request)
PasswordResetSmsResend(code, success) ==
    /\ \E id \in {SessionGet(session, "sms_verification_user_id")} :
        IF id = 0
        THEN /\ ret' = Redirect("password_reset", "")
             /\ UNCHANGED <<db, events>>
        ELSE /\ events.codes[id].issue < MaxIssues
             /\ db' = [db EXCEPT !.CustomUser = SaveNewCode(@, id, code, clock)]
             /\ events' = IssuedTo(events, id, None,
                                   db.CustomUser[id].phone_number)
             /\ ret' = IF success
                       THEN Redirect("password_reset_sms_verify",
                                     "New verification code sent!")
                       ELSE Redirect("password_reset_done",
                                     "Failed to send SMS. Please try email instead.")
    /\ op' = "password_reset_sms_resend"
    /\ UNCHANGED <<request, session, threads, clock>>
    /\ AccountsUnchanged

\* "timezone.now() - user.sms_verification_sent_at > timedelta(minutes=10)"
Expired(user, now) ==
    /\ user.sms_verification_sent_at # NoneValue
    /\ now - user.sms_verification_sent_at.int > ExpiryMinutes

\* "if user.sms_verification_attempts >= 3"
TooManyAttempts(user) == user.sms_verification_attempts >= MaxAttempts

\* "len(code) != 6 or not code.isdigit()" negated
ValidCode(code) == Len(code) = CodeLength /\ IsDigitString(code)

NoRequest == [pc |-> "idle"]

\* history: a comparison of a submitted code with the stored one: whether
\* a code is stored (a failure counts for the issued code when one is),
\* whether the submitted code has six digits and is the stored one, the minutes
\* since the stored code was sent (more than the clock can count when it
\* never was), and what happened to the issued code before
Compared(e, id, outcome, submitted, user, now) ==
    [e EXCEPT !.submissions = @ + 1,
              !.codes[id].failures =
                  IF outcome = "wrong" /\ user.sms_verification_code # None
                  THEN @ + 1 ELSE @,
              !.last = [outcome |-> outcome,
                        with_code |-> user.sms_verification_code # None,
                        six_digits |-> ValidCode(submitted),
                        stored |-> submitted = user.sms_verification_code,
                        age |-> IF user.sms_verification_sent_at = NoneValue
                                THEN MaxClock + 1
                                ELSE now - user.sms_verification_sent_at.int,
                        failures_before |-> e.codes[id].failures,
                        consumed_before |-> e.codes[id].consumed]]

\* password_reset_sms_verify(request), lines 294-330 and 335: the thread t
\* reads the session and the user's row, and decides on its copy of the row
\* what it answers and what it will save
VerifyRead(t, method, entered) ==
    /\ threads[t] = NoRequest
    /\ events.submissions < events.max_submissions
    /\ \E id \in {SessionGet(session, "sms_verification_user_id")} :
        IF id = 0
        THEN /\ ret' = Redirect("password_reset_sms_quick",
                                "Session expired. Please start over.")
             /\ UNCHANGED <<threads, events>>
        ELSE \E user \in {db.CustomUser[id]}, code \in {Strip(entered)} :
            IF Expired(user, clock)
            THEN /\ ret' = Redirect("password_reset_sms_quick",
                                    "Verification code has expired.")
                 /\ UNCHANGED <<threads, events>>
            ELSE IF method = "GET"
            THEN /\ ret' = Render("accounts/password_reset_sms_verify.html", "")
                 /\ UNCHANGED <<threads, events>>
            ELSE IF TooManyAttempts(user)
            THEN /\ ret' = Redirect("password_reset_sms_quick",
                             "Too many attempts. Please request a new code.")
                 /\ UNCHANGED <<threads, events>>
            ELSE IF ~ValidCode(code)
            THEN /\ ret' = Render("accounts/password_reset_sms_verify.html",
                                  "Please enter a valid 6-digit code.")
                 /\ UNCHANGED <<threads, events>>
            ELSE IF user.sms_verification_code = code
            THEN /\ threads' = [threads EXCEPT ![t] =
                        [pc |-> "save", id |-> id, verified |-> TRUE,
                         user |-> [user EXCEPT
                                      !.sms_verification_code = None,
                                      !.sms_verification_attempts = 0]]]
                 /\ events' = Compared(events, id, "verified", code, user,
                                       clock)
                 /\ ret' = ret
            ELSE /\ threads' = [threads EXCEPT ![t] =
                        [pc |-> "save", id |-> id, verified |-> FALSE,
                         user |-> [user EXCEPT
                                      !.sms_verification_attempts = @ + 1]]]
                 /\ events' = Compared(events, id, "wrong", code, user, clock)
                 /\ ret' = ret
    /\ op' = "password_reset_sms_verify"
    /\ UNCHANGED <<db, request, session, clock>>
    /\ AccountsUnchanged

\* password_reset_sms_verify(request), lines 328-332 and 336-342: user.save()
\* writes every field of the thread's copy of the row, and the response
\* carries the session
VerifySave(t) ==
    /\ threads[t].pc = "save"
    /\ db' = [db EXCEPT !.CustomUser[threads[t].id] = threads[t].user]
    /\ IF threads[t].verified
       THEN /\ session' = SessionSet(session, "verified_user_id", threads[t].id)
            /\ events' = [events EXCEPT
                             !.codes[threads[t].id].consumed = TRUE]
            /\ ret' = Redirect("password_reset_confirm_sms", "")
       ELSE /\ session' = session
            /\ events' = events
            /\ ret' = Render("accounts/password_reset_sms_verify.html",
                             "Invalid code.")
    /\ threads' = [threads EXCEPT ![t] = NoRequest]
    /\ op' = "password_reset_sms_verify"
    /\ UNCHANGED <<request, clock>>
    /\ AccountsUnchanged

\* password_reset_confirm_sms(request), with form.is_valid() as given
PasswordResetConfirmSms(method, is_valid) ==
    /\ \E id \in {SessionGet(session, "verified_user_id")} :
        IF id = 0
        THEN /\ ret' = Redirect("password_reset", "")
             /\ UNCHANGED <<db, session>>
        ELSE IF method = "POST" /\ is_valid
        THEN /\ db' = [db EXCEPT !.CustomUser[id].password = "new"]
             /\ session' = SessionPop(session, "verified_user_id")
             /\ ret' = Redirect("password_reset_complete",
                            "Your password has been reset successfully.")
        ELSE /\ ret' = Render("accounts/password_reset_confirm_sms.html", "")
             /\ UNCHANGED <<db, session>>
    /\ op' = "password_reset_confirm_sms"
    /\ UNCHANGED <<request, threads, clock, events>>
    /\ AccountsUnchanged

(***************************************************************************)
(* SpecVerify: one user with a phone number, one browser; codes are        *)
(* issued, submitted by up to MaxInFlight requests at a time, and time     *)
(* passes.                                                                 *)
(***************************************************************************)
\* what generate_verification_code() returns
Codes == {"111111"}

\* request.POST['code']: the code, another code and one of five digits
SubmittedCodes == Codes \cup {"222222", "12345"}

\* a row of accounts_customuser, with the fields the views read
NewUser(phone_number) ==
    [phone_number |-> phone_number,
     sms_verification_code |-> None,
     sms_verification_sent_at |-> NoneValue,
     sms_verification_attempts |-> 0,
     password |-> "old"]

NoEvents(ids, max_submissions) ==
    [max_submissions |-> max_submissions,
     codes |-> [id \in ids |-> [issue |-> 0, failures |-> 0,
                                consumed |-> FALSE]],
     submissions |-> 0,
     last |-> [outcome |-> "none"],
     sms |-> [to |-> None]]

InitVerify ==
    /\ op = "none"
    /\ query = ""
    /\ user_id = NoneValue
    /\ ret = NoneValue
    /\ raised = FALSE
    /\ conversation_history = <<>>
    /\ files = <<>>
    /\ intents = <<>>
    /\ logged = None
    /\ requested_limit = DefaultLimit
    /\ reloader = NoReloader
    /\ matcher = NoMatcher
    /\ overwritten = {}
    /\ cache = <<>>
    /\ db = [CustomUser |-> [id \in {1} |-> NewUser("+256712345678")]]
    /\ request = <<>>
    /\ session = <<>>
    /\ threads = [t \in 1..MaxInFlight |-> NoRequest]
    /\ clock = 0
    /\ events = NoEvents({1}, MaxSubmissions)

QuickReset ==
    \E code \in Codes, success \in BOOLEAN :
        PasswordResetSmsQuick("0712345678", code, success)

Submit ==
    \E t \in 1..MaxInFlight, method \in {"GET", "POST"},
       entered \in SubmittedCodes :
        VerifyRead(t, method, entered)

Save == \E t \in 1..MaxInFlight : VerifySave(t)

NextVerify == QuickReset \/ Submit \/ Save

SpecVerify == InitVerify /\ [][NextVerify]_vars

\* C18: for each issued code at most 3 incorrect submissions are compared
\* with it while it is stored, and a submission that is compared with it
\* (the correct code included) finds fewer than 3 failures before it, also
\* when submissions are served at the same time.
C18_AtMostThreeWrongCodes ==
    /\ \A id \in DOMAIN events.codes :
        events.codes[id].failures <= MaxAttempts
    /\ (events.last.outcome # "none" /\ events.last.with_code) =>
        events.last.failures_before < MaxAttempts

(***************************************************************************)
(* SpecReset: SpecVerify with the resending of a code, the passing of time *)
(* and the setting of the new password.                                    *)
(***************************************************************************)
InitReset ==
    /\ op = "none"
    /\ query = ""
    /\ user_id = NoneValue
    /\ ret = NoneValue
    /\ raised = FALSE
    /\ conversation_history = <<>>
    /\ files = <<>>
    /\ intents = <<>>
    /\ logged = None
    /\ requested_limit = DefaultLimit
    /\ reloader = NoReloader
    /\ matcher = NoMatcher
    /\ overwritten = {}
    /\ cache = <<>>
    /\ db = [CustomUser |-> [id \in {1} |-> NewUser("+256712345678")]]
    /\ request = <<>>
    /\ session = <<>>
    /\ threads = [t \in 1..MaxInFlight |-> NoRequest]
    /\ clock = 0
    /\ events = NoEvents({1}, MaxResetSubmissions)

Resend ==
    \E code \in Codes, success \in BOOLEAN :
        PasswordResetSmsResend(code, success)

Confirm ==
    \E method \in {"GET", "POST"}, is_valid \in BOOLEAN :
        PasswordResetConfirmSms(method, is_valid)

\* ten minutes pass
Tick ==
    /\ clock + ExpiryMinutes <= MaxClock
    /\ clock' = clock + ExpiryMinutes
    /\ UNCHANGED <<op, ret, db, request, session, threads, events>>
    /\ AccountsUnchanged

NextReset == QuickReset \/ Resend \/ Submit \/ Save \/ Confirm \/ Tick

SpecReset == InitReset /\ [][NextReset]_vars

\* C19: a submission verifies only if it is a 6-digit code equal to the
\* stored code, the code was sent at most 10 minutes earlier, fewer than 3
\* submissions failed on the code, and the code did not verify before.
C19_VerifiedOnlyByFreshCode ==
    events.last.outcome = "verified" =>
        /\ events.last.six_digits
        /\ events.last.stored
        /\ events.last.age <= ExpiryMinutes
        /\ events.last.failures_before < MaxAttempts
        /\ ~events.last.consumed_before

(***************************************************************************)
(* SpecPhone: two users with stored phone numbers; phone numbers are       *)
(* entered on the quick reset page and codes are sent again.               *)
(***************************************************************************)
\* CustomUser.phone_number as validate_phone_number lets the forms store it
\* (+[country code][number]), or None
StoredPhones == {None, "+256712345678", "+254712345678", "+256700000001"}

\* request.POST['phone_number']
EnteredPhones ==
    {"", "0712345678", "+256 712 345678", "0700000001", "+254712345678",
     "256"}

InitPhone ==
    /\ op = "none"
    /\ query = ""
    /\ user_id = NoneValue
    /\ ret = NoneValue
    /\ raised = FALSE
    /\ conversation_history = <<>>
    /\ files = <<>>
    /\ intents = <<>>
    /\ logged = None
    /\ requested_limit = DefaultLimit
    /\ reloader = NoReloader
    /\ matcher = NoMatcher
    /\ overwritten = {}
    /\ cache = <<>>
    /\ \E first \in StoredPhones, second \in StoredPhones :
        db = [CustomUser |-> [id \in {1, 2} |->
                 NewUser(IF id = 1 THEN first ELSE second)]]
    /\ request = <<>>
    /\ session = <<>>
    /\ threads = [t \in 1..MaxInFlight |-> NoRequest]
    /\ clock = 0
    /\ events = NoEvents({1, 2}, 0)

EnterPhone ==
    \E entered \in EnteredPhones, code \in Codes, success \in BOOLEAN :
        PasswordResetSmsQuick(entered, code, success)

NextPhone == EnterPhone \/ Resend

SpecPhone == InitPhone /\ [][NextPhone]_vars

\* the phone a text denotes: its digits, with the country code of the
\* application (256) in place of the leading 0 of a national number
Denoted(text) ==
    LET cleaned == KeepDigitsAndPlus(text)
    IN  IF StartsWith(cleaned, "+") THEN From(cleaned, 1)
        ELSE IF StartsWith(cleaned, "0") THEN "256" \o From(cleaned, 1)
        ELSE cleaned

\* C20: a code is issued to a user and sent only when the number entered
\* denotes the phone of the user's stored phone_number, and the SMS goes to
\* that phone.
C20_CodeOnlyToAccountPhone ==
    events.sms.to # None =>
        \A stored \in {db.CustomUser[events.sms.user].phone_number} :
            /\ stored # None
            /\ Denoted(events.sms.to) = Denoted(stored)
            /\ events.sms.entered # None =>
                Denoted(events.sms.entered) = Denoted(stored)

(***************************************************************************)
(* The SMS alerts: SMSService.send_alert (irrigation/sms.py) and the four  *)
(* callers that send alerts without a request of the user's: the ingest   *)
(* of sensor data (irrigation/api.py), the Celery task                     *)
(* (irrigation/tasks.py), the notification service                         *)
(* (management/commands/send_periodic_notifications.py) and the cron       *)
(* endpoint (irrigation/views.py).  In these specifications clock is       *)
(* timezone.now() in seconds since midnight, db.CustomUser maps the id of  *)
(* a user to the row, db.SensorData is the timestamp of the oldest row     *)
(* (the newest row only feeds the text of the message, which is left       *)
(* out), and events remembers the last two alerts the gateway accepted.    *)
(***************************************************************************)
\* --min-data-age of the command, in seconds
MinDataAge == 60

\* the seconds that pass in a behaviour
MaxElapsed == 75

\* datetime.time(h, m) as seconds since midnight
Time(h, m) == (h * 60 + m) * 60

\* a CustomUser row with a phone number
AlertUser(receive_sms_alerts, frequency, quiet_hours) ==
    [is_active |-> TRUE,
     phone_number |-> "+256712345678",
     receive_sms_alerts |-> receive_sms_alerts,
     sms_notification_frequency |-> frequency,
     last_notification_sent |-> NoneValue,
     quiet_hours_start |-> quiet_hours[1],
     quiet_hours_end |-> quiet_hours[2]]

\* SMSService._send_sms(phone, message) outside test mode, when the gateway
\* answers with the given text
_send_sms(phone, response_text) ==
    IF clean_phone_number(phone) = None
    THEN [success |-> FALSE, message |-> "Invalid phone number format"]
    ELSE IF response_text = "OK"
    THEN [success |-> TRUE, message |-> "SMS sent successfully"]
    ELSE [success |-> FALSE, message |-> "EgoSMS error"]

\* SMSService.send_alert(user, sensor_data)
send_alert(user, response_text) ==
    IF user.phone_number = None \/ user.phone_number = ""
    THEN [success |-> FALSE, message |-> "Invalid user or missing phone number"]
    ELSE IF ~user.receive_sms_alerts
    THEN [success |-> FALSE, message |-> "User has disabled SMS notifications"]
    ELSE _send_sms(user.phone_number, response_text)

\* send_irrigation_alert(user, sensor_data)
send_irrigation_alert(user, response_text) == send_alert(user, response_text)

\* CustomUser.can_receive_alert_now() at the time of day now, without its
\* frequency check on last_sms_alert: no caller exists in the repository
InQuietHours(user, now) ==
    IF user.quiet_hours_start <= user.quiet_hours_end
    THEN user.quiet_hours_start <= now /\ now <= user.quiet_hours_end
    ELSE now >= user.quiet_hours_start \/ now <= user.quiet_hours_end

\* should_send_notification(user) of tasks.py, and
\* Command._should_send_notification(user)
should_send_notification(user, now) ==
    IF user.last_notification_sent = NoneValue THEN TRUE
    ELSE now - user.last_notification_sent.int >= user.sms_notification_frequency

\* CustomUser.objects.filter(is_active=True, phone_number__isnull=False,
\*     receive_sms_alerts=True).exclude(phone_number='')
UsersWithNotifications(users) ==
    {id \in DOMAIN users :
        /\ users[id].is_active
        /\ users[id].phone_number # None
        /\ users[id].receive_sms_alerts
        /\ users[id].phone_number # ""}

\* CustomUser.objects.filter(is_active=True,
\*     phone_number__isnull=False).exclude(phone_number='')
UsersWithPhone(users) ==
    {id \in DOMAIN users :
        /\ users[id].is_active
        /\ users[id].phone_number # None
        /\ users[id].phone_number # ""}

\* what a sending path leaves behind: the database, the ids of the users
\* whose alert the gateway accepted, and what it returns
Sending(d, sent, returns) == [db |-> d, sent |-> sent, returns |-> returns]

\* the loop "for user in users: if should_send_notification(user): ..." of
\* the task and of the service: the iterations are independent, each reads
\* and writes the row of its own user
SendToDue(d, ids, now, response_text) ==
    LET due == {id \in ids : should_send_notification(d.CustomUser[id], now)}
        sent == {id \in due :
                    send_alert(d.CustomUser[id], response_text).success}
    IN  Sending(
            [d EXCEPT !.CustomUser =
                [id \in DOMAIN @ |->
                    IF id \in sent
                    THEN [@[id] EXCEPT !.last_notification_sent = IntValue(now)]
                    ELSE @[id]]],
            sent,
            [success_count |-> Cardinality(sent),
             failure_count |-> Cardinality(due \ sent)])

\* send_periodic_sms_alerts()
send_periodic_sms_alerts(d, now, response_text) ==
    IF d.SensorData = NoneValue
    THEN Sending(d, {}, [error |-> "SensorData matching query does not exist."])
    ELSE SendToDue(d, UsersWithNotifications(d.CustomUser), now, response_text)

\* Command._send_notifications(min_data_age)
_send_notifications(d, min_data_age, now, response_text) ==
    IF d.SensorData = NoneValue \/ d.SensorData.int > now - min_data_age
    THEN Sending(d, {}, [success_count |-> 0, failure_count |-> 0])
    ELSE IF UsersWithNotifications(d.CustomUser) = {}
    THEN Sending(d, {}, [success_count |-> 0, failure_count |-> 0])
    ELSE SendToDue(d, UsersWithNotifications(d.CustomUser), now, response_text)

\* trigger_notifications(request)
trigger_notifications(d, authorized, response_text) ==
    IF ~authorized
    THEN Sending(d, {}, Response([status |-> "error",
                                  message |-> "Unauthorized"], 401))
    ELSE IF d.SensorData = NoneValue
    THEN Sending(d, {}, Response([status |-> "error",
                                  message |-> "No sensor data"], 404))
    ELSE Sending(d,
                 {id \in UsersWithPhone(d.CustomUser) :
                    send_alert(d.CustomUser[id], response_text).success},
                 Response([status |-> "success"], 200))

\* clean_value(val) of receive_sensor_data
clean_value(val) == IF val.type = "int" THEN val ELSE NoneValue

\* SensorData.objects.create(...): the row gets the timestamp now
CreateSensorData(d, now) ==
    IF d.SensorData = NoneValue THEN [d EXCEPT !.SensorData = IntValue(now)]
    ELSE d

\* receive_sensor_data(request) of the user with the given id: an
\* IntegerField takes an int and raises for any other value
receive_sensor_data(c, d, id, data, now, response_text) ==
    LET threshold == IF "threshold" \in DOMAIN data THEN data.threshold
                     ELSE IntValue(DEFAULT_THRESHOLD)
        pump_status == IF "pump_status" \in DOMAIN data THEN data.pump_status
                       ELSE FALSE
        moisture == clean_value(IF "moisture" \in DOMAIN data THEN data.moisture
                                ELSE NoneValue)
    IN  IF threshold.type # "int"
        THEN [cache |-> c, db |-> d, sent |-> {},
              response |-> Response([status |-> "error"], 400)]
        ELSE [cache |-> CacheSet(CacheSet(CacheSet(c,
                            "moisture", moisture),
                            "pump_state", IF pump_status THEN "on" ELSE "off"),
                            "threshold", threshold.int),
              db |-> CreateSensorData(d, now),
              sent |-> IF send_irrigation_alert(d.CustomUser[id],
                                                response_text).success
                       THEN {id} ELSE {},
              response |-> Response([status |-> "success"], 201)]

(***************************************************************************)
(* SpecAlerts: one user with a phone number; the device posts sensor data, *)
(* the Celery task, the service and the cron endpoint run, one after the   *)
(* other, and time passes.                                                 *)
(***************************************************************************)
\* two of the SMS_NOTIFICATION_CHOICES, the default among them
Frequencies == {15, 30}

\* the seconds between two looks at the clock: the shortest frequency
Step == CHOOSE f \in Frequencies : \A g \in Frequencies : f <= g

\* the default window, which crosses midnight, and a window within a day
QuietHours == {<<Time(22, 0), Time(6, 0)>>, <<Time(12, 0), Time(14, 0)>>}

\* the times of day at which a behaviour starts
StartTimes == {Time(5, 59), Time(12, 0)}

\* the texts the gateway answers with
ResponseTexts == {"OK", "Insufficient balance"}

SensorInputs ==
    {[moisture |-> IntValue(20), pump_status |-> FALSE,
      threshold |-> IntValue(40)]}

NoAlerts(started) ==
    [started |-> started, previous |-> NoneValue, latest |-> NoneValue]

\* the alerts the gateway accepted are remembered, the last two of them
Remembered(e, sent, now) ==
    IF sent = {} THEN e
    ELSE [e EXCEPT !.previous = e.latest, !.latest = IntValue(now)]

InitAlerts ==
    /\ op = "none"
    /\ query = ""
    /\ user_id = NoneValue
    /\ ret = NoneValue
    /\ raised = FALSE
    /\ conversation_history = <<>>
    /\ files = <<>>
    /\ intents = <<>>
    /\ logged = None
    /\ requested_limit = DefaultLimit
    /\ reloader = NoReloader
    /\ matcher = NoMatcher
    /\ overwritten = {}
    /\ cache = <<>>
    /\ \E receive_sms_alerts \in BOOLEAN, frequency \in Frequencies,
          quiet_hours \in QuietHours :
        db = [CustomUser |->
                 [id \in {1} |-> AlertUser(receive_sms_alerts, frequency,
                                           quiet_hours)],
              SensorData |-> NoneValue]
    /\ request = <<>>
    /\ session = <<>>
    /\ threads = <<>>
    /\ clock \in StartTimes
    /\ events = NoAlerts(clock)

AlertsUnchanged ==
    UNCHANGED <<query, user_id, raised, conversation_history, files,
                intents, logged, requested_limit, reloader, matcher,
                overwritten, session, threads, clock>>

\* POST api/sensor_data/ by the device of user 1
Ingest ==
    /\ \E data \in SensorInputs, response_text \in ResponseTexts :
        \E result \in {receive_sensor_data(cache, db, 1, data, clock,
                                           response_text)} :
            /\ cache' = result.cache
            /\ db' = result.db
            /\ ret' = result.response
            /\ events' = Remembered(events, result.sent, clock)
            /\ request' = [method |-> "POST", route |-> "api/sensor_data/",
                           data |-> data]
    /\ op' = "receive_sensor_data"
    /\ AlertsUnchanged

\* a run of the Celery task
PeriodicTask ==
    /\ \E response_text \in ResponseTexts :
        \E result \in {send_periodic_sms_alerts(db, clock, response_text)} :
            /\ db' = result.db
            /\ ret' = result.returns
            /\ events' = Remembered(events, result.sent, clock)
    /\ op' = "send_periodic_sms_alerts"
    /\ UNCHANGED <<cache, request>>
    /\ AlertsUnchanged

\* one cycle of the loop of the notification service
ServiceCycle ==
    /\ \E response_text \in ResponseTexts :
        \E result \in {_send_notifications(db, MinDataAge, clock,
                                           response_text)} :
            /\ db' = result.db
            /\ ret' = result.returns
            /\ events' = Remembered(events, result.sent, clock)
    /\ op' = "_send_notifications"
    /\ UNCHANGED <<cache, request>>
    /\ AlertsUnchanged

\* a request to irrigation/cron/notifications/, with the right token or not
CronTrigger ==
    /\ \E authorized \in BOOLEAN, response_text \in ResponseTexts :
        \E result \in {trigger_notifications(db, authorized, response_text)} :
            /\ db' = result.db
            /\ ret' = result.returns
            /\ events' = Remembered(events, result.sent, clock)
            /\ request' = [method |-> "POST", route |-> "irrigation/cron/notifications/",
                           authorized |-> authorized]
    /\ op' = "trigger_notifications"
    /\ UNCHANGED cache
    /\ AlertsUnchanged

\* time passes
Pass ==
    /\ clock + Step - events.started <= MaxElapsed
    /\ clock' = clock + Step
    /\ op' = "pass"
    /\ UNCHANGED <<query, user_id, ret, raised, conversation_history, files,
                   intents, logged, requested_limit, reloader, matcher,
                   overwritten, cache, db, request, session, threads, events>>

NextAlerts == Ingest \/ PeriodicTask \/ ServiceCycle \/ CronTrigger \/ Pass

SpecAlerts == InitAlerts /\ [][NextAlerts]_vars

\* C22: two alerts sent to the user one after the other, by whichever of
\* the automatic paths, are at least sms_notification_frequency seconds
\* apart.
C22_AlertsAtLeastFrequencyApart ==
    (events.previous # NoneValue /\ events.latest # NoneValue)
        => events.latest.int - events.previous.int
               >= db.CustomUser[1].sms_notification_frequency

\* C23: no alert is sent to the user at a time of day inside the user's
\* quiet hours, from quiet_hours_start to quiet_hours_end, whether the
\* window lies within a day or crosses midnight, on any sending path.
C23_NoAlertInQuietHours ==
    events.latest # NoneValue
        => ~InQuietHours(db.CustomUser[1], events.latest.int)

(***************************************************************************)
(* save_configuration (irrigation/api.py) and the three requests that      *)
(* write the cached threshold.  db.UserPreference is the row of the user,  *)
(* None before the first get_or_create.                                    *)
(***************************************************************************)
\* UserPreference.objects.get_or_create(user=user): the row, created with
\* the defaults of its fields when there is none
GetOrCreatePreference(d) ==
    IF d.UserPreference = NoneValue
    THEN [type |-> "UserPreference", crop_type |-> None, soil_type |-> None,
          soil_moisture_threshold |-> DEFAULT_THRESHOLD]
    ELSE d.UserPreference

\* save_configuration(request): preferences.save() raises for a threshold
\* that is no number, after get_or_create has stored the row
save_configuration(c, d, data) ==
    LET preferences == GetOrCreatePreference(d)
        d1 == [d EXCEPT !.UserPreference = preferences]
        crop == IF "crop" \in DOMAIN data THEN data.crop
                ELSE preferences.crop_type
        soil == IF "soil" \in DOMAIN data THEN data.soil
                ELSE preferences.soil_type
    IN  IF "threshold" \in DOMAIN data /\ data.threshold.type # "int"
        THEN Handled(c, d1, Response([error |-> "expected a number"], 500))
        ELSE LET threshold == IF "threshold" \in DOMAIN data
                              THEN data.threshold.int
                              ELSE preferences.soil_moisture_threshold
                 saved == [preferences EXCEPT
                              !.crop_type = crop,
                              !.soil_type = soil,
                              !.soil_moisture_threshold = threshold]
             IN  Handled(CacheSet(CacheSet(CacheSet(c,
                            "crop", crop), "soil", soil), "threshold", threshold),
                         [d EXCEPT !.UserPreference = saved],
                         Response([status |-> "success",
                                   crop |-> crop,
                                   soil |-> soil,
                                   threshold |-> threshold], 200))

(***************************************************************************)
(* SpecThreshold: the requests of one user that write the cached           *)
(* threshold, one after the other, from an empty cache.                    *)
(***************************************************************************)
\* request.data of save_configuration: each key present or not
ConfigurationData ==
    {[k \in keys |-> CASE k = "crop" -> "maize"
                      [] k = "soil" -> "clay"
                      [] k = "threshold" -> threshold] :
        keys \in SUBSET {"crop", "soil", "threshold"},
        threshold \in ThresholdData \ {NoneValue}}

\* request.data of receive_sensor_data: the threshold present or not
ThresholdInputs ==
    {[moisture |-> IntValue(20), pump_status |-> FALSE]}
    \cup {[moisture |-> IntValue(20), pump_status |-> FALSE,
           threshold |-> threshold] : threshold \in ThresholdData}

InitThreshold ==
    /\ op = "none"
    /\ query = ""
    /\ user_id = NoneValue
    /\ ret = NoneValue
    /\ raised = FALSE
    /\ conversation_history = <<>>
    /\ files = <<>>
    /\ intents = <<>>
    /\ logged = None
    /\ requested_limit = DefaultLimit
    /\ reloader = NoReloader
    /\ matcher = NoMatcher
    /\ overwritten = {}
    /\ cache = <<>>
    /\ db = [ControlCommand |-> {}, Threshold |-> {},
             SystemConfiguration |-> {}, Schedule |-> {}, schedule_id |-> 0,
             UserPreference |-> NoneValue,
             CustomUser |-> [id \in {1} |->
                                AlertUser(TRUE, Step,
                                          <<Time(22, 0), Time(6, 0)>>)],
             SensorData |-> NoneValue]
    /\ request = <<>>
    /\ session = <<>>
    /\ threads = <<>>
    /\ clock = Time(12, 0)
    /\ events = NoAlerts(clock)

\* POST api/save_config/
SaveConfiguration ==
    /\ \E data \in ConfigurationData :
        \E result \in {save_configuration(cache, db, data)} :
            /\ cache' = result.cache
            /\ db' = result.db
            /\ ret' = result.response
            /\ request' = [method |-> "POST",
                           route |-> "api/save_config/", data |-> data]
    /\ op' = "save_configuration"
    /\ GuideUnchanged

\* POST api/sensor_data/ by the device of user 1, with or without a threshold
IngestThreshold ==
    /\ \E data \in ThresholdInputs, response_text \in ResponseTexts :
        \E result \in {receive_sensor_data(cache, db, 1, data, clock,
                                           response_text)} :
            /\ cache' = result.cache
            /\ db' = result.db
            /\ ret' = result.response
            /\ events' = Remembered(events, result.sent, clock)
            /\ request' = [method |-> "POST", route |-> "api/sensor_data/",
                           data |-> data]
    /\ op' = "receive_sensor_data"
    /\ AlertsUnchanged

NextThreshold == SetThreshold \/ SaveConfiguration \/ IngestThreshold

SpecThreshold == InitThreshold /\ [][NextThreshold]_vars

\* C24: the threshold cached for the user is at all times an integer
\* between 0 and 100, whichever of set_threshold, save_configuration and
\* the ingest of sensor data wrote it.
C24_CachedThresholdInRange ==
    "threshold" \in DOMAIN cache => cache.threshold \in 0..100

=============================================================================
